---- MODULE Spec2Model ----
(***************************************************************************)
(* A model of the tool-augmented dialogue loop of the AI personal          *)
(* assistant (src/ai_chat_assistant.py): the session loop run() and the    *)
(* two-pass turn handler process_with_claude, and of the tool servers the  *)
(* assistant imports (src/mcp_servers): ask_questions, meeting_scheduler,  *)
(* pizza_ordering and pdf_reader, whose module-level stores live in the    *)
(* same process.                                                           *)
(*                                                                         *)
(* Strings are TLA+ strings.  A message is [role, content] where content   *)
(* is [text |-> s] for a plain string, [blocks |-> seq] for the content    *)
(* blocks of a model response, and [tool_results |-> seq] for a list of    *)
(* tool_result blocks.  A tool_use block's input is modelled by the set of *)
(* keys the model supplied.  Emoji of the program's strings are left out:   *)
(* the strings of the model are the program's strings without them.        *)
(***************************************************************************)
EXTENDS Naturals, Integers, Sequences, FiniteSets, TLC

(***************************************************************************)
(* Bounds of the model and constants of the program.                       *)
(***************************************************************************)
\* Largest number of content blocks in a model response (detailed scenario).
MaxBlocks == 2
\* Number of lines the user submits in the detailed scenario.
MaxTurns == 1
\* Number of lines the user submits in the long-session scenario.
MaxSessionTurns == 12
\* conversation_history[-10:]
HistoryWindow == 10

VARIABLES
    scenario,              \* which behaviours of the model API are explored
    claude_client,         \* TRUE iff self.claude_client is not None
    conversation_history,  \* self.conversation_history
    loop,                  \* position of run(): "new", "input", "awaiting", "returned"
    pc,                    \* position of process_with_claude: "idle", "entry", "tools", "ret"
    user_message,          \* argument of process_with_claude
    messages,              \* local: messages
    response,              \* local: response (first model response)
    idx,                   \* position of the for loop over response.content (1-based)
    tool_results,          \* local: tool_results
    assistant_text,        \* local: assistant_text
    final_response,        \* local: final_response (second model response)
    ret,                   \* value returned by process_with_claude
    caught,                \* str(e) of the exception the outer except clause caught, "" if none
    events,                \* history variable: model calls and tool executions of this call
    assistant_writes,      \* history variable: number of writes of each entry's assistant field
    clock,                 \* datetime.now(), in seconds since the modules were imported
    user_responses,        \* ask_questions.user_responses, in insertion order
    user_preferences,      \* ask_questions.user_preferences
    calendar,              \* the events of the primary Google calendar
    orders_db,             \* pizza_ordering.orders_db
    document_store,        \* pdf_reader.document_store, in insertion order
    call,                  \* history variable: the last call of a server function
    answer                 \* history variable: the value that call returned

\* The state of the tool servers.
servers == <<clock, user_responses, user_preferences, calendar, orders_db,
             document_store, call, answer>>

vars == <<scenario, claude_client, conversation_history, loop, pc, user_message,
          messages, response, idx, tool_results, assistant_text, final_response,
          ret, caught, events, assistant_writes, servers>>

\* The state of the assistant object.
assistant == <<claude_client, conversation_history, loop, pc, user_message,
               messages, response, idx, tool_results, assistant_text,
               final_response, ret, caught, events, assistant_writes>>

locals == <<user_message, messages, response, idx, tool_results, assistant_text,
            final_response, ret, caught, events>>

(***************************************************************************)
(* Tool tables of process_with_claude.                                     *)
(***************************************************************************)
\* Names of the tool specs passed to the model (tools = [...]).
DeclaredTools ==
    {"send_simple_email", "search_web", "read_pdf_text", "read_pdf_with_ocr",
     "ask_question_about_pdf", "get_pdf_info"}

\* "required" list of each declared tool's input_schema, in schema order.
Required(name) ==
    CASE name = "send_simple_email"      -> <<"to", "subject", "message">>
      [] name = "search_web"             -> <<"query">>
      [] name = "read_pdf_text"          -> <<"file_path">>
      [] name = "read_pdf_with_ocr"      -> <<"file_path">>
      [] name = "ask_question_about_pdf" -> <<"question">>
      [] name = "get_pdf_info"           -> <<"file_path">>
      [] OTHER                           -> <<>>

\* Keys of self.available_tools.
AvailableTools ==
    {"send_email", "search_web", "get_news", "get_weather", "get_stock_price",
     "schedule_meeting", "list_meetings", "cancel_meeting", "check_availability",
     "get_pizza_menu", "get_restaurants", "order_pizza", "check_order_status",
     "list_orders", "ask_clarifying_question", "ask_personal_information",
     "ask_preference_question", "ask_confirmation", "list_pending_questions"}

\* Names with a branch in the if/elif chain of the dispatcher.
DispatchedTools ==
    {"send_simple_email", "search_web", "read_pdf_text", "read_pdf_with_ocr",
     "ask_question_about_pdf", "get_pdf_info"}

\* Keys the branch of `name` reads with tool_input[...] (a missing key raises
\* KeyError), in evaluation order; keys read with tool_input.get are not listed.
Subscripted(name) ==
    CASE name = "send_simple_email"      -> <<"to", "subject", "message">>
      [] name = "search_web"             -> <<"query">>
      [] name = "read_pdf_text"          -> <<"file_path">>
      [] name = "read_pdf_with_ocr"      -> <<"file_path">>
      [] name = "ask_question_about_pdf" -> <<"question">>
      [] name = "get_pdf_info"           -> <<"file_path">>
      [] OTHER                           -> <<>>

\* Positions of the subscripted keys that tool_input lacks.
MissingAt(name, input) ==
    {i \in 1..Len(Subscripted(name)) : Subscripted(name)[i] \notin input}

\* The key whose subscript raises KeyError: the first one missing.
FirstMissing(name, input) ==
    Subscripted(name)[CHOOSE i \in MissingAt(name, input) :
                          \A j \in MissingAt(name, input) : i <= j]

(***************************************************************************)
(* Strings the code builds.                                                *)
(***************************************************************************)
ClaudeUnavailable ==
    "Error: Claude API not available. Please set ANTHROPIC_API_KEY in your .env file"

\* f"Error processing with Claude: {str(e)}"
ErrorProcessing(msg) == "Error processing with Claude: " \o msg

\* str(KeyError(key))
KeyErrorMessage(key) == "'" \o key \o "'"

\* f"Unknown tool: {tool_name}"
UnknownTool(name) == "Unknown tool: " \o name

\* str(e) of the exceptions the model client and the block accesses raise.
ApiErrorMessage == "Connection error."
IndexErrorMessage == "list index out of range"
AttributeErrorMessage == "'ToolUseBlock' object has no attribute 'text'"

\* Strings an executor returns: every executor catches its own exceptions and
\* returns either its report or an error string.
ExecutorResults(name) == {name \o ": done", "Error: " \o name \o " failed"}

(***************************************************************************)
(* The model API: the responses messages.create may return.                *)
(***************************************************************************)
TextBlock(t) == [type |-> "text", text |-> t]
ToolUseBlock(name, input, id) ==
    [type |-> "tool_use", name |-> name, input |-> input, id |-> id]

NoResponse == [stop_reason |-> "none", content |-> <<>>]

\* Tool calls the model may request in the detailed scenario, without ids:
\* complete arguments, arguments lacking a required parameter, a name that
\* is registered in available_tools only, and a name that exists nowhere.
OfferedCalls ==
    {[name |-> "search_web", input |-> {"query"}],
     [name |-> "search_web", input |-> {}],
     [name |-> "send_simple_email", input |-> {"to", "subject", "message"}],
     [name |-> "send_simple_email", input |-> {"to", "message"}],
     [name |-> "read_pdf_text", input |-> {"file_path", "page_end"}],
     [name |-> "read_pdf_with_ocr", input |-> {"file_path"}],
     [name |-> "ask_question_about_pdf", input |-> {"question"}],
     [name |-> "get_pdf_info", input |-> {"file_path"}],
     [name |-> "schedule_meeting", input |-> {"title", "date", "time"}],
     [name |-> "open_door", input |-> {}]}

\* A block shape: a text block still without its text, or a tool call still
\* without its id.
TextShape == [type |-> "text"]
ToolShape(c) == [type |-> "tool_use", name |-> c.name, input |-> c.input]

ShapeSeqs(shapes, n) == UNION {[1..k -> shapes] : k \in 0..n}

\* Text of the text block at position i of a first and of a second response:
\* every text block of a turn has its own text.
FirstText(i) == "Let me check " \o ToString(i) \o ". "
FinalText(i) == "Answer " \o ToString(i) \o "."

\* The model API gives every tool_use block of a response its own id: the
\* block at position i gets id number i (ascending) or number n+1-i.
ToolId(k) == "toolu_" \o ToString(k)

Blocks(shape, ascending, first) ==
    [i \in 1..Len(shape) |->
        IF shape[i].type = "tool_use"
        THEN ToolUseBlock(shape[i].name, shape[i].input,
                          ToolId(IF ascending THEN i ELSE Len(shape) + 1 - i))
        ELSE TextBlock(IF first THEN FirstText(i) ELSE FinalText(i))]

StopReasons == {"end_turn", "tool_use"}

DetailedResponses ==
    {[stop_reason |-> sr, content |-> Blocks(s, a, TRUE)] :
        sr \in StopReasons,
        s \in ShapeSeqs({TextShape} \cup {ToolShape(c) : c \in OfferedCalls}, MaxBlocks),
        a \in BOOLEAN}

\* Second responses of the detailed scenario: no block, text only, tool_use
\* only, and text and tool_use in either order; the stop reason is tool_use
\* iff a tool_use block is present.
FinalShapes ==
    LET t == TextShape
        u == ToolShape([name |-> "search_web", input |-> {"query"}])
    IN  {<<>>, <<t>>, <<u>>, <<t, t>>, <<t, u>>, <<u, t>>}

DetailedFinalResponses ==
    {[stop_reason |-> IF \E i \in 1..Len(s) : s[i].type = "tool_use"
                      THEN "tool_use" ELSE "end_turn",
      content |-> Blocks(s, TRUE, FALSE)] : s \in FinalShapes}

\* The long-session scenario: an empty reply or one fixed reply, so that many
\* turns fit.
SessionText == "Done."

SessionResponses ==
    {[stop_reason |-> "end_turn", content |-> <<TextBlock("")>>],
     [stop_reason |-> "end_turn", content |-> <<TextBlock(SessionText)>>],
     [stop_reason |-> "tool_use",
      content |-> <<ToolUseBlock("search_web", {"query"}, ToolId(1))>>]}

SessionFinalResponses ==
    {[stop_reason |-> "end_turn", content |-> <<TextBlock(SessionText)>>]}

Scenarios == {"detailed", "session"}

FirstResponses == IF scenario = "detailed" THEN DetailedResponses ELSE SessionResponses
FinalResponses == IF scenario = "detailed" THEN DetailedFinalResponses ELSE SessionFinalResponses
\* Whether messages.create may raise (network failure, API error).
ApiMayFail == scenario = "detailed"
TurnBound == IF scenario = "detailed" THEN MaxTurns ELSE MaxSessionTurns

(***************************************************************************)
(* The terminal: lines the user may type.                                  *)
(***************************************************************************)
\* The k-th line the user submits as a turn.
UserText(k) == "message " \o ToString(k)

QuitLines == {"quit", "Exit", " BYE "}

\* The lines the user may type as the k-th turn; the last line of a long
\* session that got no reply may also be one that begins with a quit word.
RawLines(k) ==
    {"", "   "} \cup QuitLines \cup {UserText(k), " " \o UserText(k)}
    \cup (IF /\ scenario = "session" /\ k = TurnBound
              /\ \A i \in 1..Len(conversation_history) :
                    conversation_history[i].assistant = ""
           THEN {"quit now"} ELSE {})

\* str.strip() on the lines of RawLines.
Strip(raw) ==
    CASE raw = "   "   -> ""
      [] raw = " BYE " -> "BYE"
      [] \E k \in 1..(TurnBound + 1) : raw = " " \o UserText(k) ->
            UserText(CHOOSE k \in 1..(TurnBound + 1) : raw = " " \o UserText(k))
      [] OTHER -> raw

\* Mutant of Lower: the letters are compared as typed.
LowerAsTyped(s) == s

\* str.lower() on the stripped lines.
Lower(s) ==
    CASE s = "Exit" -> "exit"
      [] s = "BYE"  -> "bye"
      [] OTHER      -> s

(***************************************************************************)
(* Helpers of process_with_claude.                                         *)
(***************************************************************************)
Message(role, content) == [role |-> role, content |-> content]

\* Mutant of LastN: the whole sequence, no window.
LastNUnbounded(seq, n) == seq

\* seq[-n:]
LastN(seq, n) ==
    IF Len(seq) <= n THEN seq ELSE SubSeq(seq, Len(seq) - n + 1, Len(seq))

\* The loop over conversation_history[-10:] that fills messages.
RECURSIVE HistoryMessages(_)
HistoryMessages(entries) ==
    IF entries = <<>> THEN <<>>
    ELSE LET entry == Head(entries)
         IN  <<Message("user", [text |-> entry.user])>>
             \o (IF entry.assistant # ""
                 THEN <<Message("assistant", [text |-> entry.assistant])>>
                 ELSE <<>>)
             \o HistoryMessages(Tail(entries))

\* messages as passed to the first model call.
BuildMessages(history, text) ==
    HistoryMessages(LastN(history, HistoryWindow))
    \o <<Message("user", [text |-> text])>>

\* response.content[0].text: the value, or the message of the exception.
FirstBlockText(resp) ==
    IF resp.content = <<>> THEN [ok |-> FALSE, value |-> IndexErrorMessage]
    ELSE IF resp.content[1].type # "text"
         THEN [ok |-> FALSE, value |-> AttributeErrorMessage]
         ELSE [ok |-> TRUE, value |-> resp.content[1].text]

\* messages.create(model, max_tokens, system=system_prompt, messages=messages,
\* tools=tools): system_prompt and tools are built once per call of
\* process_with_claude.
SystemPrompt == "You are a helpful personal AI assistant. Be friendly and conversational."
ModelCall(sent) ==
    [kind |-> "model_call", system |-> SystemPrompt, messages |-> sent,
     tools |-> DeclaredTools]

\* Mutant of ToolMessages: the response of the model is not sent back.
ToolMessagesResultsOnly(resp, results) ==
    <<Message("user", [tool_results |-> results])>>

\* The two messages appended before the second model call.
ToolMessages(resp, results) ==
    <<Message("assistant", [blocks |-> resp.content]),
      Message("user", [tool_results |-> results])>>
ToolExec(i, name) == [kind |-> "tool_exec", block |-> i, name |-> name]

(***************************************************************************)
(* The state after AIPersonalAssistant() is constructed.                   *)
(***************************************************************************)
ResetLocals ==
    /\ user_message' = ""
    /\ messages' = <<>>
    /\ response' = NoResponse
    /\ idx' = 0
    /\ tool_results' = <<>>
    /\ assistant_text' = ""
    /\ final_response' = NoResponse
    /\ ret' = ""
    /\ caught' = ""
    /\ events' = <<>>

\* The scenarios that exercise one tool server each.
ServerScenarios ==
    {"questions", "calendar", "pizza", "pricing", "pdf", "pages", "credentials"}

NoCall == [op |-> "none"]

\* The tool servers after import: every store is empty.
ServersInit ==
    /\ clock = 0
    /\ user_responses = <<>>
    /\ user_preferences = <<>>
    /\ calendar = <<>>
    /\ orders_db = <<>>
    /\ document_store = <<>>
    /\ call = NoCall
    /\ answer = ""

Init ==
    /\ scenario \in Scenarios \cup ServerScenarios
    /\ ServersInit
    /\ claude_client \in BOOLEAN
    /\ conversation_history = <<>>
    /\ loop = "new"
    /\ pc = "idle"
    /\ user_message = ""
    /\ messages = <<>>
    /\ response = NoResponse
    /\ idx = 0
    /\ tool_results = <<>>
    /\ assistant_text = ""
    /\ final_response = NoResponse
    /\ ret = ""
    /\ caught = ""
    /\ events = <<>>
    /\ assistant_writes = <<>>

InitDetailed == Init /\ scenario = "detailed"
InitSession == Init /\ scenario = "session"
\* The servers are exercised by direct calls, without an assistant session.
InitServers == Init /\ scenario \in ServerScenarios /\ ~claude_client

(***************************************************************************)
(* run()                                                                   *)
(***************************************************************************)
\* Mutant of RunStart: the loop is entered without testing claude_client.
RunStartUnchecked ==
    /\ loop = "new"
    /\ pc = "idle"
    /\ loop' = "input"
    /\ UNCHANGED <<servers, scenario, claude_client, conversation_history, pc, locals,
                   assistant_writes>>

\* run() up to the loop: without a client it returns at once.
RunStart ==
    /\ loop = "new"
    /\ pc = "idle"
    /\ loop' = IF claude_client THEN "input" ELSE "returned"
    /\ UNCHANGED <<servers, scenario, claude_client, conversation_history, pc, locals,
                   assistant_writes>>

\* One input() of the loop that reads raw, up to the call of
\* process_with_claude.
ReadLineOf(raw) ==
    /\ loop = "input"
    /\ pc = "idle"
    /\ LET user_input == Strip(raw) IN
       IF user_input = ""
       THEN UNCHANGED vars
       ELSE IF Lower(user_input) \in {"quit", "exit", "bye"}
       THEN /\ loop' = "returned"
            /\ UNCHANGED <<servers, scenario, claude_client, conversation_history, pc,
                           locals, assistant_writes>>
       ELSE /\ Len(conversation_history) < TurnBound
            /\ conversation_history' =
                  Append(conversation_history,
                         [user |-> user_input, assistant |-> ""])
            /\ assistant_writes' = Append(assistant_writes, 0)
            /\ loop' = "awaiting"
            /\ pc' = "entry"
            /\ user_message' = user_input
            /\ UNCHANGED <<servers, scenario, claude_client, messages, response, idx,
                           tool_results, assistant_text, final_response, ret,
                           caught, events>>

ReadLine == \E raw \in RawLines(Len(conversation_history) + 1) : ReadLineOf(raw)

\* Ctrl-C at the prompt: except KeyboardInterrupt: break.
KeyboardInterrupt ==
    /\ loop = "input"
    /\ pc = "idle"
    /\ loop' = "returned"
    /\ UNCHANGED <<servers, scenario, claude_client, conversation_history, pc, locals,
                   assistant_writes>>

\* Mutant of StoreReply: the history is cut to its last HistoryWindow entries
\* after the reply is stored.
StoreReplyTrims ==
    /\ loop = "awaiting"
    /\ pc = "ret"
    /\ IF conversation_history # <<>>
       THEN /\ conversation_history' =
                 LastN([conversation_history EXCEPT
                           ![Len(conversation_history)].assistant = ret], HistoryWindow)
            /\ assistant_writes' =
                 LastN([assistant_writes EXCEPT ![Len(assistant_writes)] = @ + 1],
                       HistoryWindow)
       ELSE UNCHANGED <<conversation_history, assistant_writes>>
    /\ loop' = "input"
    /\ pc' = "idle"
    /\ ResetLocals
    /\ UNCHANGED <<servers, scenario, claude_client>>

\* print(response); self.conversation_history[-1]["assistant"] = response
StoreReply ==
    /\ loop = "awaiting"
    /\ pc = "ret"
    /\ IF conversation_history # <<>>
       THEN /\ conversation_history' =
                 [conversation_history EXCEPT ![Len(conversation_history)].assistant = ret]
            /\ assistant_writes' =
                 [assistant_writes EXCEPT ![Len(assistant_writes)] = @ + 1]
       ELSE UNCHANGED <<conversation_history, assistant_writes>>
    /\ loop' = "input"
    /\ pc' = "idle"
    /\ ResetLocals
    /\ UNCHANGED <<servers, scenario, claude_client>>

(***************************************************************************)
(* A caller other than run() (src/test_ai_meeting.py): the assistant is    *)
(* constructed and process_with_claude is called on it directly, outside   *)
(* the session loop.                                                       *)
(***************************************************************************)
DirectMessages == {"What meetings do I have coming up?"}

\* Where the direct calls are explored: on a fresh assistant, and in the
\* long-session scenario also on an assistant whose session has ended.
DirectCallPoints == IF scenario = "detailed" THEN {"new"} ELSE {"new", "returned"}

DirectCall ==
    /\ loop \in DirectCallPoints
    /\ pc = "idle"
    /\ \E m \in DirectMessages : user_message' = m
    /\ pc' = "entry"
    /\ UNCHANGED <<servers, scenario, claude_client, conversation_history, loop, messages,
                   response, idx, tool_results, assistant_text, final_response,
                   ret, caught, events, assistant_writes>>

DirectReturn ==
    /\ loop \in {"new", "returned"}
    /\ pc = "ret"
    /\ pc' = "idle"
    /\ ResetLocals
    /\ UNCHANGED <<servers, scenario, claude_client, conversation_history, loop,
                   assistant_writes>>

(***************************************************************************)
(* process_with_claude                                                     *)
(***************************************************************************)
\* return v
Return(v) ==
    /\ ret' = v
    /\ caught' = caught
    /\ pc' = "ret"

\* Mutant of Raise: the exception leaves process_with_claude.
RaisePropagates(msg) ==
    /\ caught' = msg
    /\ ret' = ret
    /\ pc' = "raised"

\* An exception with str(e) = msg raised inside the try block:
\* except Exception as e: return f"Error processing with Claude: {str(e)}"
Raise(msg) ==
    /\ caught' = msg
    /\ ret' = ErrorProcessing(msg)
    /\ pc' = "ret"

\* return <resp>.content[0].text
ReturnFirstText(resp) ==
    IF FirstBlockText(resp).ok
    THEN Return(FirstBlockText(resp).value)
    ELSE Raise(FirstBlockText(resp).value)

\* From the entry to the end of the first messages.create and the test of
\* stop_reason.
FirstModelCall ==
    /\ pc = "entry"
    /\ IF ~claude_client
       THEN /\ Return(ClaudeUnavailable)
            /\ UNCHANGED <<messages, response, idx, tool_results, assistant_text,
                           events>>
       ELSE /\ messages' = BuildMessages(conversation_history, user_message)
            /\ events' = Append(events, ModelCall(messages'))
            /\ \E outcome \in FirstResponses
                              \cup (IF ApiMayFail THEN {NoResponse} ELSE {}) :
                 IF outcome = NoResponse
                 THEN \* messages.create raised
                      /\ Raise(ApiErrorMessage)
                      /\ UNCHANGED <<response, idx, tool_results, assistant_text>>
                 ELSE /\ response' = outcome
                      /\ IF outcome.stop_reason = "tool_use"
                         THEN /\ tool_results' = <<>>
                              /\ assistant_text' = ""
                              /\ idx' = 1
                              /\ pc' = "tools"
                              /\ UNCHANGED <<ret, caught>>
                         ELSE /\ ReturnFirstText(outcome)
                              /\ UNCHANGED <<idx, tool_results, assistant_text>>
    /\ UNCHANGED <<servers, scenario, claude_client, conversation_history, loop,
                   user_message, final_response, assistant_writes>>

\* A Python dict is a sequence of [key, value] in insertion order.
DictKeys(d) == {d[i].key : i \in 1..Len(d)}
DictGet(d, key) == d[CHOOSE i \in 1..Len(d) : d[i].key = key].value
\* d[key] = value: a new key is added at the end, an existing key keeps its
\* place.
DictSet(d, key, value) ==
    IF key \in DictKeys(d)
    THEN [i \in 1..Len(d) |->
            IF d[i].key = key THEN [key |-> key, value |-> value] ELSE d[i]]
    ELSE Append(d, [key |-> key, value |-> value])
DictValues(d) == [i \in 1..Len(d) |-> d[i].value]

\* What read_pdf_text stores for a file: the pages read and the page count.
TextDocument(pages, total_pages) == [pages |-> pages, total_pages |-> total_pages]

\* What read_pdf_with_ocr stores for a file.
OcrDocument(pages, total_pages) ==
    [pages |-> pages, total_pages |-> total_pages, has_ocr |-> TRUE]

\* A page as read_pdf_text and as read_pdf_with_ocr store it (the word counts
\* and the per-image records are left out).
TextPage(n, text) == [page_number |-> n, text |-> text]
OcrPage(n, text, ocr) ==
    [page_number |-> n, text |-> text, ocr_text |-> ocr,
     combined_text |-> IF ocr # ""
                       THEN text \o "\n\n[OCR Text from Images]\n" \o ocr
                       ELSE text]

\* The file the model asks the assistant to read, and what is read from it.
DispatchedPath == "document.pdf"
DispatchedText == "Annual report."

\* document_store after the executor of `name` has returned `result`: the
\* two readers store the document when they succeed.
ExecutorStores(name, result) ==
    IF result # name \o ": done" THEN document_store
    ELSE IF name = "read_pdf_text"
    THEN DictSet(document_store, DispatchedPath,
                       TextDocument(<<TextPage(1, DispatchedText)>>, 1))
    ELSE IF name = "read_pdf_with_ocr"
    THEN DictSet(document_store, DispatchedPath,
                       OcrDocument(<<OcrPage(1, DispatchedText, "")>>, 1))
    ELSE document_store

\* The dispatcher: the result string of one tool_use block, or the KeyError
\* of a tool_input[...] subscript.  The executor's own outcome is chosen by
\* the caller among ExecutorResults.
DispatchRaises(block) ==
    /\ block.name \in DispatchedTools
    /\ MissingAt(block.name, block.input) # {}

DispatchResults(block) ==
    IF block.name \in DispatchedTools
    THEN ExecutorResults(block.name)
    ELSE {UnknownTool(block.name)}

\* Mutant of ToolResult: every result is keyed by the id of the first block.
ToolResultStaleId(block, result) ==
    [type |-> "tool_result", tool_use_id |-> ToolId(1), content |-> result]

\* The tool_result appended for a block.
ToolResult(block, result) ==
    [type |-> "tool_result", tool_use_id |-> block.id, content |-> result]

\* Mutant of RecordResult: the newest result is put first.
RecordResultFirst(results, result) == <<result>> \o results

\* tool_results.append(...)
RecordResult(results, result) == Append(results, result)

\* One iteration of `for content_block in response.content`.
DispatchBlock ==
    /\ pc = "tools"
    /\ idx <= Len(response.content)
    /\ LET content_block == response.content[idx] IN
       IF content_block.type = "text"
       THEN /\ assistant_text' = assistant_text \o content_block.text
            /\ idx' = idx + 1
            /\ UNCHANGED <<tool_results, events, ret, caught, pc, document_store>>
       ELSE IF DispatchRaises(content_block)
       THEN \* KeyError, caught by the outer except
            /\ Raise(KeyErrorMessage(
                          FirstMissing(content_block.name, content_block.input)))
            /\ UNCHANGED <<assistant_text, idx, tool_results, events, document_store>>
       ELSE /\ \E result \in DispatchResults(content_block) :
                 /\ tool_results' = RecordResult(tool_results, ToolResult(content_block, result))
                 /\ document_store' = ExecutorStores(content_block.name, result)
            /\ events' = IF content_block.name \in DispatchedTools
                         THEN Append(events, ToolExec(idx, content_block.name))
                         ELSE events
            /\ idx' = idx + 1
            /\ UNCHANGED <<assistant_text, ret, caught, pc>>
    /\ UNCHANGED <<clock, user_responses, user_preferences, calendar, orders_db,
                   call, answer>>
    /\ UNCHANGED <<scenario, claude_client, conversation_history, loop,
                   user_message, messages, response, final_response,
                   assistant_writes>>

\* Mutant of SecondModelCall: the tool_use blocks of the second response are
\* executed as well.
SecondModelCallExecutesAgain ==
    /\ pc = "tools"
    /\ idx > Len(response.content)
    /\ IF tool_results # <<>>
       THEN /\ messages' = messages \o ToolMessages(response, tool_results)
            /\ \E outcome \in FinalResponses
                              \cup (IF ApiMayFail THEN {NoResponse} ELSE {}) :
                 IF outcome = NoResponse
                 THEN /\ Raise(ApiErrorMessage)
                      /\ events' = Append(events, ModelCall(messages'))
                      /\ UNCHANGED final_response
                 ELSE /\ final_response' = outcome
                      /\ events' = Append(events, ModelCall(messages'))
                                    \o [i \in 1..Len(SelectSeq(outcome.content,
                                                      LAMBDA b : b.type = "tool_use")) |->
                                          ToolExec(i, "search_web")]
                      /\ ReturnFirstText(outcome)
       ELSE /\ Return(assistant_text)
            /\ UNCHANGED <<messages, events, final_response>>
    /\ UNCHANGED <<servers, scenario, claude_client, conversation_history, loop,
                   user_message, response, idx, tool_results, assistant_text,
                   assistant_writes>>

\* Mutant of SecondModelCall: after the second call the buffered text of the
\* first response is returned when there is some.
SecondModelCallSurfacesText ==
    /\ pc = "tools"
    /\ idx > Len(response.content)
    /\ IF tool_results # <<>>
       THEN /\ messages' = messages \o ToolMessages(response, tool_results)
            /\ events' = Append(events, ModelCall(messages'))
            /\ \E outcome \in FinalResponses
                              \cup (IF ApiMayFail THEN {NoResponse} ELSE {}) :
                 IF outcome = NoResponse
                 THEN /\ Raise(ApiErrorMessage)
                      /\ UNCHANGED final_response
                 ELSE /\ final_response' = outcome
                      /\ IF assistant_text # ""
                         THEN Return(assistant_text)
                         ELSE ReturnFirstText(outcome)
       ELSE /\ Return(assistant_text)
            /\ UNCHANGED <<messages, events, final_response>>
    /\ UNCHANGED <<servers, scenario, claude_client, conversation_history, loop,
                   user_message, response, idx, tool_results, assistant_text,
                   assistant_writes>>

\* After the loop: the second messages.create when tool_results is not
\* empty, else the buffered text.
SecondModelCall ==
    /\ pc = "tools"
    /\ idx > Len(response.content)
    /\ IF tool_results # <<>>
       THEN /\ messages' = messages \o ToolMessages(response, tool_results)
            /\ events' = Append(events, ModelCall(messages'))
            /\ \E outcome \in FinalResponses
                              \cup (IF ApiMayFail THEN {NoResponse} ELSE {}) :
                 IF outcome = NoResponse
                 THEN /\ Raise(ApiErrorMessage)
                      /\ UNCHANGED final_response
                 ELSE /\ final_response' = outcome
                      /\ ReturnFirstText(outcome)
       ELSE /\ Return(assistant_text)
            /\ UNCHANGED <<messages, events, final_response>>
    /\ UNCHANGED <<servers, scenario, claude_client, conversation_history, loop,
                   user_message, response, idx, tool_results, assistant_text,
                   assistant_writes>>

Next ==
    \/ RunStart
    \/ ReadLine
    \/ KeyboardInterrupt
    \/ StoreReply
    \/ DirectCall
    \/ DirectReturn
    \/ FirstModelCall
    \/ DispatchBlock
    \/ SecondModelCall

\* The detailed scenario: every shape of model response, few turns.
Spec == InitDetailed /\ [][Next]_vars

\* The long-session scenario: short replies, many turns.
SpecSession == InitSession /\ [][Next]_vars

(***************************************************************************)
(* The tool servers (src/mcp_servers).  Their functions are called         *)
(* directly, as src/test_all_servers.py and src/test_calendar.py do; each  *)
(* scenario exercises one server.  `call` records the last call and        *)
(* `answer` the string it returned.                                        *)
(***************************************************************************)
\* Seconds that pass while the servers are exercised.
MaxClock == 1

\* The scenarios whose functions store the time of the call.
ClockScenarios == {"questions", "pizza"}

TwoDigits(n) == IF n < 10 THEN "0" \o ToString(n) ELSE ToString(n)

\* The modules are imported on 2025-01-02 at 12:00:00 local time.
\* datetime.now().strftime('%Y%m%d_%H%M%S')
StrfTime(c) == "20250102_1200" \o TwoDigits(c)
\* datetime.now().isoformat(), without the microseconds
IsoFormat(c) == "2025-01-02T12:00:" \o TwoDigits(c)

\* A second passes.
Tick ==
    /\ scenario \in ClockScenarios
    /\ clock < MaxClock
    /\ clock' = clock + 1
    /\ UNCHANGED <<user_responses, user_preferences, calendar, orders_db,
                   document_store, call, answer>>
    /\ UNCHANGED <<scenario, assistant>>

\* rec[k] = v on a dict held as a record.
RecSet(rec, k, v) ==
    [x \in DOMAIN rec \cup {k} |-> IF x = k THEN v ELSE rec[x]]

\* Python's None.
None == "None"

\* sub in s
Contains(s, sub) ==
    \E i \in 1..(Len(s) - Len(sub) + 1) : SubSeq(s, i, i + Len(sub) - 1) = sub

(***************************************************************************)
(* ask_questions.py                                                        *)
(***************************************************************************)
\* Largest number of questions asked.
MaxQuestions == 2

\* Mutant of QuestionId: the id carries no counter.
QuestionIdWithoutCounter(prefix) == prefix \o "_" \o StrfTime(clock)

\* f"{prefix}_{len(user_responses) + 1}_{datetime.now().strftime(...)}"
QuestionId(prefix) ==
    prefix \o "_" \o ToString(Len(user_responses) + 1) \o "_" \o StrfTime(clock)

\* Arguments of the calls made.
ClarifyingCalls ==
    {[question |-> "Which city?", context |-> "", question_type |-> "general",
      required |-> FALSE],
     [question |-> "Which colour?", context |-> "Booking a trip",
      question_type |-> "preference", required |-> TRUE]}
PersonalCalls == {[info_type |-> "email", purpose |-> "billing", required |-> TRUE]}
PreferenceCalls ==
    {[preference_type |-> "color", options |-> <<"red", "blue">>, context |-> ""]}
ConfirmationCalls ==
    {[action |-> "Send the email", details |-> "", consequences |-> ""]}
Responses == {"blue"}
UnknownQuestionId == "q_0_unknown"

\* The questions dict of ask_personal_information and its .get default.
PersonalQuestion(info_type) ==
    CASE info_type = "name"          -> "What is your full name?"
      [] info_type = "email"         -> "What is your email address?"
      [] info_type = "phone"         -> "What is your phone number?"
      [] info_type = "address"       -> "What is your address?"
      [] info_type = "birthday"      -> "What is your date of birth?"
      [] info_type = "preferences"   -> "What are your preferences for this task?"
      [] info_type = "confirmation"  -> "Please confirm this information is correct"
      [] OTHER                       -> "Please provide your " \o info_type

\* All four functions end alike: one record is stored and the formatted
\* question is returned.
Ask(op, question_id, record, formatted_question) ==
    /\ scenario = "questions"
    /\ Len(user_responses) < MaxQuestions
    /\ user_responses' = DictSet(user_responses, question_id, record)
    /\ call' = [op |-> op, question_id |-> question_id]
    /\ answer' = formatted_question
    /\ UNCHANGED <<clock, user_preferences, calendar, orders_db, document_store>>
    /\ UNCHANGED <<scenario, assistant>>

ask_clarifying_question ==
    \E a \in ClarifyingCalls :
        Ask("ask_clarifying_question", QuestionId("q"),
            [question |-> a.question, context |-> a.context,
             question_type |-> a.question_type, required |-> a.required,
             timestamp |-> IsoFormat(clock), answered |-> FALSE, response |-> None],
            "Question: " \o a.question \o "\n"
            \o (IF a.context # "" THEN "Context: " \o a.context \o "\n" ELSE "")
            \o "Type: " \o a.question_type \o "\n"
            \o (IF a.required THEN "This question is required to proceed.\n" ELSE "")
            \o "\nPlease provide your answer:")

ask_personal_information ==
    \E a \in PersonalCalls :
        LET question == PersonalQuestion(a.info_type)
                        \o (IF a.purpose # ""
                            THEN " (needed for: " \o a.purpose \o ")" ELSE "")
        IN  Ask("ask_personal_information", QuestionId("personal"),
                [question |-> question,
                 context |-> "Personal information request: " \o a.info_type,
                 question_type |-> "personal", required |-> a.required,
                 info_type |-> a.info_type, purpose |-> a.purpose,
                 timestamp |-> IsoFormat(clock), answered |-> FALSE,
                 response |-> None],
                "Personal Information Request\n\n"
                \o "Information needed: " \o a.info_type \o "\n"
                \o "Question: " \o question \o "\n"
                \o (IF a.purpose # "" THEN "Purpose: " \o a.purpose \o "\n" ELSE "")
                \o (IF a.required
                    THEN "This information is required to proceed.\n"
                    ELSE "This information is optional.\n")
                \o "\nPlease provide your answer:")

\* for i, option in enumerate(options, 1): f"{i}. {option}\n"
RECURSIVE NumberedOptions(_, _)
NumberedOptions(options, i) ==
    IF i > Len(options) THEN ""
    ELSE ToString(i) \o ". " \o options[i] \o "\n" \o NumberedOptions(options, i + 1)

ask_preference_question ==
    \E a \in PreferenceCalls :
        LET question == "What is your preference for " \o a.preference_type \o "?"
        IN  Ask("ask_preference_question", QuestionId("preference"),
                [question |-> question, context |-> a.context,
                 question_type |-> "preference",
                 preference_type |-> a.preference_type, options |-> a.options,
                 timestamp |-> IsoFormat(clock), answered |-> FALSE,
                 response |-> None],
                "Preference Question\n\n"
                \o "Question: " \o question \o "\n"
                \o (IF a.context # "" THEN "Context: " \o a.context \o "\n" ELSE "")
                \o "\nAvailable options:\n"
                \o NumberedOptions(a.options, 1)
                \o "\nPlease select your preference (enter the number or option name):")

ask_confirmation ==
    \E a \in ConfirmationCalls :
        LET question == "Please confirm: " \o a.action
        IN  Ask("ask_confirmation", QuestionId("confirmation"),
                [question |-> question, context |-> a.details,
                 question_type |-> "confirmation", action |-> a.action,
                 consequences |-> a.consequences,
                 timestamp |-> IsoFormat(clock), answered |-> FALSE,
                 response |-> None],
                "Confirmation Required\n\n"
                \o "Action: " \o a.action \o "\n"
                \o (IF a.details # "" THEN "Details: " \o a.details \o "\n" ELSE "")
                \o (IF a.consequences # ""
                    THEN "Consequences: " \o a.consequences \o "\n" ELSE "")
                \o "\nDo you want to proceed? (yes/no)")

get_user_response ==
    /\ scenario = "questions"
    /\ \E question_id \in DictKeys(user_responses) \cup {UnknownQuestionId},
          user_response \in Responses :
         /\ call' = [op |-> "get_user_response", question_id |-> question_id,
                     response |-> user_response]
         /\ IF question_id \notin DictKeys(user_responses)
            THEN /\ answer' = "Error: Question ID " \o question_id \o " not found."
                 /\ UNCHANGED <<user_responses, user_preferences>>
            ELSE LET old == DictGet(user_responses, question_id)
                     new == RecSet(RecSet(RecSet(old, "response", user_response),
                                          "answered", TRUE),
                                   "response_time", IsoFormat(clock))
                 IN  /\ user_responses' = DictSet(user_responses, question_id, new)
                     /\ IF new.question_type # "preference"
                        THEN /\ UNCHANGED user_preferences
                             /\ answer' = "Response recorded: " \o user_response
                        ELSE IF "preference_type" \notin DOMAIN new
                        THEN \* KeyError, caught by `except Exception`
                             /\ UNCHANGED user_preferences
                             /\ answer' = "Error recording response: 'preference_type'"
                        ELSE /\ user_preferences' =
                                  DictSet(user_preferences, new.preference_type,
                                          user_response)
                             /\ answer' = "Response recorded: " \o user_response
    /\ UNCHANGED <<clock, calendar, orders_db, document_store>>
    /\ UNCHANGED <<scenario, assistant>>

\* [q for q in user_responses.values() if not q["answered"]]
PendingQuestions == SelectSeq(DictValues(user_responses), LAMBDA q : ~q.answered)

\* The lines of the listing for the pending questions from position i on.
RECURSIVE PendingLines(_, _)
PendingLines(pending, i) ==
    IF i > Len(pending) THEN ""
    ELSE ToString(i) \o ". " \o pending[i].question \o "\n"
         \o "   Type: " \o pending[i].question_type \o "\n"
         \o "   Required: " \o (IF pending[i].required THEN "Yes" ELSE "No") \o "\n"
         \o "   Time: " \o pending[i].timestamp \o "\n\n"
         \o PendingLines(pending, i + 1)

\* question['required'] raises KeyError for a record without that key; the
\* except clause turns it into the returned string.
list_pending_questions ==
    /\ scenario = "questions"
    /\ call' = [op |-> "list_pending_questions"]
    /\ LET pending_questions == PendingQuestions IN
       answer' =
         IF pending_questions = <<>> THEN "No pending questions."
         ELSE IF \E i \in 1..Len(pending_questions) :
                    "required" \notin DOMAIN pending_questions[i]
         THEN "Error listing pending questions: " \o KeyErrorMessage("required")
         ELSE "Pending Questions (" \o ToString(Len(pending_questions))
              \o " total):\n\n" \o PendingLines(pending_questions, 1)
    /\ UNCHANGED <<clock, user_responses, user_preferences, calendar, orders_db,
                   document_store>>
    /\ UNCHANGED <<scenario, assistant>>

(***************************************************************************)
(* Dates and times: datetime.strptime, isoformat, fromisoformat, strftime. *)
(* A naive datetime is the number of seconds since 2025-01-01T00:00:00;    *)
(* the dates of the model lie in 2025.                                     *)
(***************************************************************************)
\* Position of the first occurrence of the character c in s from position i
\* on, 0 if there is none.
RECURSIVE Find(_, _, _)
Find(s, c, i) ==
    IF i > Len(s) THEN 0
    ELSE IF SubSeq(s, i, i) = c THEN i ELSE Find(s, c, i + 1)

Digit(c) ==
    CASE c = "0" -> 0 [] c = "1" -> 1 [] c = "2" -> 2 [] c = "3" -> 3
      [] c = "4" -> 4 [] c = "5" -> 5 [] c = "6" -> 6 [] c = "7" -> 7
      [] c = "8" -> 8 [] c = "9" -> 9

\* The number a string of digits denotes.
RECURSIVE ParseNat(_)
ParseNat(s) ==
    IF s = "" THEN 0
    ELSE 10 * ParseNat(SubSeq(s, 1, Len(s) - 1)) + Digit(SubSeq(s, Len(s), Len(s)))

\* The fields of s between the occurrences of the character c.
RECURSIVE Split(_, _)
Split(s, c) ==
    LET i == Find(s, c, 1) IN
    IF i = 0 THEN <<s>>
    ELSE <<SubSeq(s, 1, i - 1)>> \o Split(SubSeq(s, i + 1, Len(s)), c)

IsDigits(s) ==
    /\ s # ""
    /\ \A i \in 1..Len(s) : SubSeq(s, i, i) \in {"0", "1", "2", "3", "4", "5", "6", "7", "8", "9"}

DaysInMonth == <<31, 28, 31, 30, 31, 30, 31, 31, 30, 31, 30, 31>>

RECURSIVE DaysBefore(_)
DaysBefore(month) ==
    IF month = 1 THEN 0 ELSE DaysBefore(month - 1) + DaysInMonth[month - 1]

ValueError == [ok |-> FALSE, value |-> 0]
Parsed(v) == [ok |-> TRUE, value |-> v]

\* strptime(date, "%Y-%m-%d"): the seconds at midnight of that day.
ParseDate(date) ==
    LET f == Split(date, "-") IN
    IF Len(f) # 3 \/ \E i \in 1..3 : ~IsDigits(f[i]) THEN ValueError
    ELSE IF Len(f[1]) # 4 \/ Len(f[2]) > 2 \/ Len(f[3]) > 2 THEN ValueError
    ELSE LET year == ParseNat(f[1])
             month == ParseNat(f[2])
             day == ParseNat(f[3])
         IN  IF year # 2025 \/ month \notin 1..12 THEN ValueError
             ELSE IF day \notin 1..DaysInMonth[month] THEN ValueError
             ELSE Parsed((DaysBefore(month) + day - 1) * 86400)

\* strptime(time, "%H:%M"): the seconds since midnight.
ParseTime(time) ==
    LET f == Split(time, ":") IN
    IF Len(f) # 2 \/ \E i \in 1..2 : ~IsDigits(f[i]) THEN ValueError
    ELSE IF Len(f[1]) > 2 \/ Len(f[2]) > 2 THEN ValueError
    ELSE IF ParseNat(f[1]) > 23 \/ ParseNat(f[2]) > 59 THEN ValueError
    ELSE Parsed(ParseNat(f[1]) * 3600 + ParseNat(f[2]) * 60)

\* Mutant of ParseDateTime: every text is taken for a date and a time.
ParseDateTimeUnchecked(date, time) == Parsed(ParseDate("2025-01-02").value)

\* datetime.strptime(f"{date} {time}", "%Y-%m-%d %H:%M")
ParseDateTime(date, time) ==
    IF ParseDate(date).ok /\ ParseTime(time).ok
    THEN Parsed(ParseDate(date).value + ParseTime(time).value)
    ELSE ValueError

\* The month and the day of the month of a datetime.
MonthOf(t) ==
    CHOOSE month \in 1..12 :
        /\ DaysBefore(month) <= t \div 86400
        /\ t \div 86400 < DaysBefore(month) + DaysInMonth[month]
DayOf(t) == t \div 86400 - DaysBefore(MonthOf(t)) + 1
HourOf(t) == (t % 86400) \div 3600
MinuteOf(t) == (t % 3600) \div 60
SecondOf(t) == t % 60

\* datetime.isoformat() of a naive datetime.
DateTimeIso(t) ==
    "2025-" \o TwoDigits(MonthOf(t)) \o "-" \o TwoDigits(DayOf(t)) \o "T"
    \o TwoDigits(HourOf(t)) \o ":" \o TwoDigits(MinuteOf(t)) \o ":"
    \o TwoDigits(SecondOf(t))

\* datetime.fromisoformat(s): the wall-clock datetime of "YYYY-MM-DDTHH:MM:SS"
\* followed by an optional UTC offset, which strftime does not show.
FromIsoFormat(s) ==
    ParseDate(SubSeq(s, 1, 10)).value
    + ParseNat(SubSeq(s, 12, 13)) * 3600 + ParseNat(SubSeq(s, 15, 16)) * 60
    + ParseNat(SubSeq(s, 18, 19))

WeekdayNames ==
    <<"Monday", "Tuesday", "Wednesday", "Thursday", "Friday", "Saturday", "Sunday">>
MonthNames ==
    <<"January", "February", "March", "April", "May", "June", "July", "August",
      "September", "October", "November", "December">>

\* strftime('%A, %B %d, %Y'): 2025-01-01 is a Wednesday.
StrfDate(t) ==
    WeekdayNames[((t \div 86400 + 2) % 7) + 1] \o ", " \o MonthNames[MonthOf(t)]
    \o " " \o TwoDigits(DayOf(t)) \o ", 2025"

\* strftime('%H:%M')
StrfHourMinute(t) == TwoDigits(HourOf(t)) \o ":" \o TwoDigits(MinuteOf(t))

\* strftime('%A, %B %d, %Y at %I:%M %p')
StrfDateTime(t) ==
    StrfDate(t) \o " at "
    \o TwoDigits(IF HourOf(t) % 12 = 0 THEN 12 ELSE HourOf(t) % 12) \o ":"
    \o TwoDigits(MinuteOf(t)) \o " " \o (IF HourOf(t) < 12 THEN "AM" ELSE "PM")

\* The modules are imported on 2025-01-02 at 12:00:00 local time, which is
\* Central Standard Time: UTC is six hours ahead.
ImportTime == ParseDateTime("2025-01-02", "12:00").value
UtcOffsetHours == 6
\* datetime.now() and datetime.utcnow()
Now == ImportTime + clock
UtcNow == Now + UtcOffsetHours * 3600

(***************************************************************************)
(* Google Calendar, as meeting_scheduler.py uses it: the events of the     *)
(* primary calendar, whose time zone is America/Chicago.  `calendar` holds *)
(* the event resources in the order of their insertion; a deleted event    *)
(* stays, with status "cancelled".                                         *)
(***************************************************************************)
\* Largest number of meetings scheduled.
MaxMeetings == 2

\* How the service answers a call: it works, get_calendar_service() returns
\* None, creds.refresh() raises, or the request fails.
ServiceOutcomes == {"ok", "unauthenticated", "refresh_failed", "unavailable"}

\* What token.json holds: a valid token, no file, an expired token without a
\* refresh token, an expired token with one.
TokenStates == {"valid", "missing", "expired", "refreshable"}
Tokens == IF scenario = "credentials" THEN TokenStates ELSE {"valid", "missing"}

\* The scenarios that call the functions of the calendar.
CalendarScenarios == {"calendar", "credentials"}

\* Mutant of get_calendar_service: the service is built from any token.
BuildServiceAnyway(token) == {"ok", "unavailable"}

\* get_calendar_service() and the request that follows: without valid
\* credentials the token is refreshed if it is expired and has a refresh
\* token, and None is returned otherwise.
get_calendar_service(token) ==
    CASE token = "valid" -> {"ok", "unavailable"}
      [] token = "refreshable" -> {"ok", "unavailable", "refresh_failed"}
      [] OTHER -> {"unauthenticated"}

\* str(RefreshError)
RefreshErrorText == "('invalid_grant: Token has been expired or revoked.', {'error': 'invalid_grant'})"

\* The requests a call sends to Google: the refresh of the token, and the
\* requests api of the function when the service was built.
ProviderRequests(token, service, api) ==
    (IF token = "refreshable" THEN <<"oauth2.token">> ELSE <<>>)
    \o (IF service \in {"ok", "unavailable"} THEN api ELSE <<>>)

NotAuthenticated ==
    "Error: Google Calendar not authenticated. Run 'uv run python authenticate_google.py' first."

\* str(HttpError)
HttpErrorText(status) == "<HttpError " \o ToString(status) \o ">"

\* The UTC offset of the events' time zone, in hours.
TimeZoneOffsetHours(timeZone) == IF timeZone = "America/Chicago" THEN 6 ELSE 0

\* The instant, in seconds of UTC, of a start or an end of an event.
Instant(when) ==
    FromIsoFormat(when.dateTime) + TimeZoneOffsetHours(when.timeZone) * 3600

\* The instant of a timeMin or timeMax parameter: isoformat() + 'Z' is UTC.
ParseRfc3339(s) ==
    IF SubSeq(s, Len(s), Len(s)) = "Z" THEN FromIsoFormat(s)
    ELSE FromIsoFormat(s) + UtcOffsetHours * 3600

EventId(n) == "evt" \o ToString(n)

\* events().insert(calendarId='primary', body=event).execute()
EventsInsert(body) ==
    LET id == EventId(Len(calendar) + 1) IN
    RecSet(RecSet(RecSet(body, "id", id), "status", "confirmed"),
           "htmlLink", "https://www.google.com/calendar/event?eid=" \o id)

\* The event as the service returns it: the times carry the UTC offset.
EventResource(e) ==
    RecSet(RecSet(e, "start", [dateTime |-> e.start.dateTime \o "-06:00",
                               timeZone |-> e.start.timeZone]),
           "end", [dateTime |-> e.end.dateTime \o "-06:00",
                   timeZone |-> e.end.timeZone])

\* The events of es that are not cancelled, end after time_min and start
\* before time_max (-1: no upper end), in order.
RECURSIVE SelectEvents(_, _, _)
SelectEvents(es, time_min, time_max) ==
    IF es = <<>> THEN <<>>
    ELSE LET e == Head(es)
             keep == /\ e.status = "confirmed"
                     /\ Instant(e.end) > time_min
                     /\ (time_max = -1 \/ Instant(e.start) < time_max)
         IN  (IF keep THEN <<e>> ELSE <<>>)
             \o SelectEvents(Tail(es), time_min, time_max)

\* orderBy='startTime': e inserted into a sequence sorted by start time.
RECURSIVE InsertByStart(_, _)
InsertByStart(e, es) ==
    IF es = <<>> THEN <<e>>
    ELSE IF Instant(e.start) < Instant(Head(es).start) THEN <<e>> \o es
    ELSE <<Head(es)>> \o InsertByStart(e, Tail(es))

RECURSIVE SortByStart(_)
SortByStart(es) ==
    IF es = <<>> THEN <<>>
    ELSE InsertByStart(es[Len(es)], SortByStart(SubSeq(es, 1, Len(es) - 1)))

\* events().list(calendarId='primary', timeMin, timeMax, singleEvents=True,
\* orderBy='startTime').execute().get('items', []): the events that end
\* after timeMin and start before timeMax (None: no upper end), sorted by
\* start time.  The page size of the service is larger than the calendar.
EventsList(timeMin, timeMax) ==
    LET found == SortByStart(SelectEvents(calendar, ParseRfc3339(timeMin),
                     IF timeMax = None THEN -1 ELSE ParseRfc3339(timeMax)))
    IN  [i \in 1..Len(found) |-> EventResource(found[i])]

\* The same with maxResults=max_results: the first max_results of them.
EventsListMaxResults(timeMin, timeMax, maxResults) ==
    LET found == EventsList(timeMin, timeMax) IN
    IF Len(found) <= maxResults THEN found ELSE SubSeq(found, 1, maxResults)

\* Mutant of DeleteStatuses: every delete succeeds.
DeleteStatusesAlwaysDone(event_id) == {204}

\* The status of events().delete(eventId): 204, 404 for an id the calendar
\* never held, 404 or 410 for an event deleted before.
DeleteStatuses(event_id) ==
    IF \E i \in 1..Len(calendar) : calendar[i].id = event_id /\ calendar[i].status = "confirmed"
    THEN {204}
    ELSE IF \E i \in 1..Len(calendar) : calendar[i].id = event_id
    THEN {404, 410}
    ELSE {404}

\* The calendar after events().delete(eventId) succeeded.
EventsDelete(event_id) ==
    [i \in 1..Len(calendar) |->
        IF calendar[i].id = event_id THEN RecSet(calendar[i], "status", "cancelled")
        ELSE calendar[i]]

(***************************************************************************)
(* meeting_scheduler.py                                                    *)
(***************************************************************************)
\* ', '.join(items)
RECURSIVE Join(_)
Join(items) ==
    IF items = <<>> THEN ""
    ELSE IF Len(items) = 1 THEN items[1]
    ELSE items[1] \o ", " \o Join(Tail(items))

\* Arguments of the calls made: a morning meeting, an evening meeting with
\* a room and attendees, a date that is none and a time that is none (the
\* first and the last of them where the tokens are exercised).
DefaultDuration == 60
DefaultMaxResults == 10
MeetingCalls ==
    IF scenario = "credentials"
    THEN {[date |-> "2025-01-02", time |-> "10:00", location |-> None, attendees |-> <<>>],
          [date |-> "2025-01-02", time |-> "9am", location |-> None, attendees |-> <<>>]}
    ELSE
    {[date |-> "2025-01-02", time |-> "10:00", location |-> None, attendees |-> <<>>],
     [date |-> "2025-01-02", time |-> "20:00", location |-> "Room 1",
      attendees |-> <<"ann@example.com", "bob@example.com">>],
     [date |-> "2025-13-01", time |-> "10:00", location |-> None, attendees |-> <<>>],
     [date |-> "2025-01-02", time |-> "9am", location |-> None, attendees |-> <<>>]}
ListedDates ==
    IF scenario = "credentials" THEN {"2025-01-02"}
    ELSE {None, "2025-01-02", "2025-01-03", "tomorrow"}
AvailabilityCalls ==
    IF scenario = "credentials"
    THEN {[date |-> "2025-01-02", start_time |-> "10:00", end_time |-> None]}
    ELSE
    [date : {"2025-01-02"}, start_time : {"09:00", "10:00", "10:30", "11:00", "16:00"},
     end_time : {None}]
    \cup {[date |-> "2025-01-02", start_time |-> "10:00", end_time |-> "10:30"],
          [date |-> "2025-01-02", start_time |-> "10:30", end_time |-> "10:30"],
          [date |-> "2025-01-02", start_time |-> "10:00", end_time |-> "noon"]}
CancelledIds == {EventId(1), "missing"}

\* str(ValueError) of strptime
ValueErrorText(text, format) ==
    "time data '" \o text \o "' does not match format '" \o format \o "'"

\* The event that schedule_meeting builds.
NewEvent(title, start_datetime, end_datetime, attendees, location) ==
    LET event == [summary |-> title,
                  start |-> [dateTime |-> DateTimeIso(start_datetime),
                             timeZone |-> "America/Chicago"],
                  end |-> [dateTime |-> DateTimeIso(end_datetime),
                           timeZone |-> "America/Chicago"]]
        located == IF location # None /\ location # ""
                   THEN RecSet(event, "location", location) ELSE event
    IN  IF attendees # <<>>
        THEN RecSet(located, "attendees",
                    [i \in 1..Len(attendees) |-> [email |-> attendees[i]]])
        ELSE located

schedule_meeting ==
    \E details \in MeetingCalls, token \in Tokens :
      \E service \in get_calendar_service(token) :
        LET title == "Standup"
            date == details.date
            time == details.time
            duration_minutes == DefaultDuration
            start == ParseDateTime(date, time)
            start_datetime == start.value
            end_datetime == start_datetime + duration_minutes * 60
            created_event ==
                EventsInsert(NewEvent(title, start_datetime, end_datetime,
                                      details.attendees, details.location))
        IN
        /\ scenario \in CalendarScenarios
        /\ Len(calendar) < MaxMeetings
        /\ call' = [op |-> "schedule_meeting", title |-> title, date |-> date,
                    time |-> time, duration_minutes |-> duration_minutes,
                    attendees |-> details.attendees, location |-> details.location,
                    service |-> service, token |-> token,
                    requests |-> ProviderRequests(token, service,
                        IF start.ok THEN <<"events.insert">> ELSE <<>>)]
        /\ IF service = "unauthenticated"
           THEN answer' = NotAuthenticated /\ UNCHANGED calendar
           ELSE IF service = "refresh_failed"
           THEN /\ answer' = "Error scheduling meeting: " \o RefreshErrorText
                /\ UNCHANGED calendar
           ELSE IF ~start.ok
           THEN /\ answer' = "Error: Invalid date/time format. Use YYYY-MM-DD for date and HH:MM for time. Error: "
                             \o ValueErrorText(date \o " " \o time, "%Y-%m-%d %H:%M")
                /\ UNCHANGED calendar
           ELSE IF service = "unavailable"
           THEN /\ answer' = "Google Calendar API error: " \o HttpErrorText(503)
                /\ UNCHANGED calendar
           ELSE /\ calendar' = Append(calendar, created_event)
                /\ answer' =
                     "Meeting scheduled successfully!\n\n"
                     \o "Title: " \o title \o "\n"
                     \o "When: " \o StrfDateTime(start_datetime) \o "\n"
                     \o "Duration: " \o ToString(duration_minutes) \o " minutes\n"
                     \o (IF details.location # None /\ details.location # ""
                         THEN "Location: " \o details.location \o "\n" ELSE "")
                     \o (IF details.attendees # <<>>
                         THEN "Attendees: " \o Join(details.attendees) \o "\n" ELSE "")
                     \o "\nCalendar link: " \o created_event.htmlLink
        /\ UNCHANGED <<clock, user_responses, user_preferences, orders_db, document_store>>
        /\ UNCHANGED <<scenario, assistant>>

\* The lines of list_meetings for the i-th event of the result.
MeetingEntry(i, event) ==
    ToString(i) \o ". " \o event.summary \o "\n"
    \o "   " \o StrfDateTime(FromIsoFormat(event.start.dateTime)) \o "\n"
    \o (IF "location" \in DOMAIN event THEN "   " \o event.location \o "\n" ELSE "")
    \o (IF "attendees" \in DOMAIN event
        THEN "   " \o Join([a \in 1..Len(event.attendees) |-> event.attendees[a].email]) \o "\n"
        ELSE "")
    \o "   ID: " \o event.id \o "\n"
    \o "\n"

RECURSIVE MeetingEntries(_, _)
MeetingEntries(found, n) ==
    IF n = 0 THEN "" ELSE MeetingEntries(found, n - 1) \o MeetingEntry(n, found[n])

list_meetings ==
    \E date \in ListedDates, token \in Tokens :
      \E service \in get_calendar_service(token) :
        LET max_results == DefaultMaxResults
            start_date == ParseDate(date)
            time_min == IF date # None
                        THEN DateTimeIso(start_date.value) \o "Z"
                        ELSE DateTimeIso(UtcNow) \o "Z"
            time_max == IF date # None
                        THEN DateTimeIso(start_date.value + 23 * 3600 + 59 * 60 + 59) \o "Z"
                        ELSE None
            found == EventsListMaxResults(time_min, time_max, max_results)
        IN
        /\ scenario \in CalendarScenarios
        /\ call' = [op |-> "list_meetings", date |-> date,
                    max_results |-> max_results, service |-> service, token |-> token,
                    requests |-> ProviderRequests(token, service,
                        IF date # None /\ ~start_date.ok THEN <<>> ELSE <<"events.list">>)]
        /\ answer' =
             IF service = "unauthenticated" THEN NotAuthenticated
             ELSE IF service = "refresh_failed"
             THEN "Error listing meetings: " \o RefreshErrorText
             ELSE IF date # None /\ ~start_date.ok
             THEN "Error: Invalid date format. Use YYYY-MM-DD."
             ELSE IF service = "unavailable"
             THEN "Google Calendar API error: " \o HttpErrorText(503)
             ELSE IF found = <<>>
             THEN (IF date # None THEN "No meetings found on " \o date
                   ELSE "No upcoming meetings found")
             ELSE "Found " \o ToString(Len(found)) \o " meeting(s):\n\n"
                  \o MeetingEntries(found, Len(found))
        /\ UNCHANGED <<clock, user_responses, user_preferences, calendar, orders_db,
                       document_store>>
        /\ UNCHANGED <<scenario, assistant>>

cancel_meeting ==
    \E event_id \in CancelledIds, token \in Tokens :
      \E service \in get_calendar_service(token) :
      \E status \in DeleteStatuses(event_id) :
        /\ scenario \in CalendarScenarios
        /\ call' = [op |-> "cancel_meeting", event_id |-> event_id,
                    service |-> service, token |-> token,
                    requests |-> ProviderRequests(token, service,
                        <<"events.delete">>)]
        /\ IF service = "unauthenticated"
           THEN answer' = NotAuthenticated /\ UNCHANGED calendar
           ELSE IF service = "refresh_failed"
           THEN /\ answer' = "Error cancelling meeting: " \o RefreshErrorText
                /\ UNCHANGED calendar
           ELSE IF service = "unavailable"
           THEN /\ answer' = "Google Calendar API error: " \o HttpErrorText(503)
                /\ UNCHANGED calendar
           ELSE IF status = 204
           THEN /\ calendar' = EventsDelete(event_id)
                /\ answer' = "Meeting cancelled successfully (ID: " \o event_id \o ")"
           ELSE IF status = 404
           THEN /\ answer' = "Error: Meeting not found (ID: " \o event_id \o ")"
                /\ UNCHANGED calendar
           ELSE /\ answer' = "Google Calendar API error: " \o HttpErrorText(status)
                /\ UNCHANGED calendar
        /\ UNCHANGED <<clock, user_responses, user_preferences, orders_db, document_store>>
        /\ UNCHANGED <<scenario, assistant>>

\* The lines of check_availability for the conflicting events.
RECURSIVE ConflictLines(_)
ConflictLines(found) ==
    IF found = <<>> THEN ""
    ELSE "  * " \o Head(found).summary \o " ("
         \o StrfHourMinute(FromIsoFormat(Head(found).start.dateTime)) \o " - "
         \o StrfHourMinute(FromIsoFormat(Head(found).end.dateTime)) \o ")\n"
         \o ConflictLines(Tail(found))

\* check_availability(date, start_time, end_time, duration_minutes); made
\* holds what the caller records of the call.
CheckAvailability(date, start_time, end_time, duration_minutes, made) ==
    \E token \in Tokens :
      \E service \in get_calendar_service(token) :
        LET start == ParseDateTime(date, start_time)
            end == IF end_time # None THEN ParseDateTime(date, end_time)
                   ELSE Parsed(start.value + duration_minutes * 60)
            start_datetime == start.value
            end_datetime == end.value
            time_min == DateTimeIso(start_datetime) \o "Z"
            time_max == DateTimeIso(end_datetime) \o "Z"
            found == EventsList(time_min, time_max)
        IN
        /\ scenario \in CalendarScenarios
        /\ call' = made @@
                   [date |-> date,
                    start_time |-> start_time, end_time |-> end_time,
                    duration_minutes |-> duration_minutes, service |-> service, token |-> token,
                    requests |-> ProviderRequests(token, service,
                        IF start.ok /\ end.ok THEN <<"events.list">> ELSE <<>>)]
        /\ answer' =
             IF service = "unauthenticated" THEN NotAuthenticated
             ELSE IF service = "refresh_failed"
             THEN "Error checking availability: " \o RefreshErrorText
             ELSE IF ~start.ok \/ ~end.ok
             THEN "Error: Invalid date/time format. Error: "
                  \o ValueErrorText(date \o " " \o (IF start.ok THEN end_time ELSE start_time),
                                    "%Y-%m-%d %H:%M")
             ELSE IF service = "unavailable"
             THEN "Google Calendar API error: " \o HttpErrorText(503)
             ELSE IF end_datetime <= start_datetime
             THEN "Google Calendar API error: " \o HttpErrorText(400)
             ELSE IF found = <<>>
             THEN "Time slot is available!\n\n" \o StrfDate(start_datetime) \o "\n"
                  \o start_time \o " - " \o StrfHourMinute(end_datetime)
             ELSE "Time slot has conflicts:\n\n" \o StrfDate(start_datetime) \o "\n"
                  \o "Requested: " \o start_time \o " - " \o StrfHourMinute(end_datetime)
                  \o "\n\n" \o "Conflicting meetings:\n" \o ConflictLines(found)
        /\ UNCHANGED <<clock, user_responses, user_preferences, calendar, orders_db,
                       document_store>>
        /\ UNCHANGED <<scenario, assistant>>

check_availability ==
    \E args \in AvailabilityCalls :
        CheckAvailability(args.date, args.start_time, args.end_time, DefaultDuration,
                          [op |-> "check_availability"])

\* The arguments of the calls of the tool: half an hour, an hour.
ToolAvailabilityCalls ==
    [date : {"2025-01-02"}, time : {"10:00"}, duration : {30, 60}]

\* str(value) in an f-string, and None for a value that `if value:` takes
\* for false.
Positional(value) == IF value = 0 THEN None ELSE ToString(value)

\* check_availability_tool(date, time, duration) of the assistant and
\* check_availability_tool(date, time, duration_minutes) of the MCP server:
\* check_availability(date, time, duration), the third positional parameter
\* of which is end_time.
check_availability_tool ==
    \E args \in ToolAvailabilityCalls :
        CheckAvailability(args.date, args.time, Positional(args.duration), DefaultDuration,
                          [op |-> "check_availability_tool", time |-> args.time,
                           duration |-> args.duration])


(***************************************************************************)
(* pizza_ordering.py.  An amount of money is a number of millionths of a   *)
(* dollar.  Scenario "pizza" places several orders with few different      *)
(* arguments; scenario "pricing" places one order with any arguments.      *)
(***************************************************************************)
\* Largest number of orders placed, and largest quantity of an order.
MaxOrders == 2
MaxQuantity == 3

Dollars(cents) == cents * 10000

\* PIZZA_MENU: the ids in the order of the dict, names and prices.
PizzaIds == <<"margherita", "pepperoni", "veggie", "meat_lovers", "hawaiian", "supreme">>
PIZZA_MENU ==
    [margherita |-> [name |-> "Margherita Pizza", price |-> Dollars(1299)],
     pepperoni |-> [name |-> "Pepperoni Pizza", price |-> Dollars(1499)],
     veggie |-> [name |-> "Veggie Supreme", price |-> Dollars(1699)],
     meat_lovers |-> [name |-> "Meat Lovers", price |-> Dollars(1899)],
     hawaiian |-> [name |-> "Hawaiian Pizza", price |-> Dollars(1599)],
     supreme |-> [name |-> "Supreme Pizza", price |-> Dollars(1999)]]

\* RESTAURANTS
RestaurantIds == <<"pizza_hut", "dominos", "papa_johns">>
RESTAURANTS ==
    [pizza_hut |-> [name |-> "Pizza Hut", phone |-> "1-800-PIZZA-HUT",
                    delivery_fee |-> Dollars(399)],
     dominos |-> [name |-> "Domino's", phone |-> "1-800-DOMINOS",
                  delivery_fee |-> Dollars(299)],
     papa_johns |-> [name |-> "Papa John's", phone |-> "1-800-PAPA-JOHN",
                     delivery_fee |-> Dollars(499)]]

\* Mutant of SizeMultiplierTenths: a size that is no key counts as the
\* default size of an order, large.
SizeMultiplierUnknownAsLarge(size) ==
    CASE size = "small" -> 8 [] size = "medium" -> 10 [] size = "large" -> 12
      [] size = "extra_large" -> 14 [] OTHER -> 12

\* {"small": 0.8, "medium": 1.0, "large": 1.2, "extra_large": 1.4}.get(size, 1.0),
\* in tenths.
SizeMultiplierTenths(size) ==
    CASE size = "small" -> 8 [] size = "medium" -> 10 [] size = "large" -> 12
      [] size = "extra_large" -> 14 [] OTHER -> 10

\* The error of a floating-point product, in millionths of a dollar: the
\* real error is far smaller.
FloatErrors == {-1, 0, 1}

\* f"{amount:.2f}": the amount rounded to the nearest cent.
Cents(amount) == (amount + 5000) \div 10000
Money(amount) ==
    ToString(Cents(amount) \div 100) \o "." \o TwoDigits(Cents(amount) % 100)

\* Arguments of the calls made.
Sizes == {"small", "medium", "large", "extra_large", "family"}
OrderCalls ==
    IF scenario = "pricing"
    THEN [pizza_type : {PizzaIds[i] : i \in 1..Len(PizzaIds)},
          size : Sizes, quantity : 0..MaxQuantity,
          restaurant : {RestaurantIds[i] : i \in 1..Len(RestaurantIds)}]
    ELSE IF scenario = "credentials"
    THEN {[pizza_type |-> "margherita", size |-> "large", quantity |-> 1,
           restaurant |-> "dominos"]}
    ELSE [pizza_type : {"margherita", "pepperoni", "calzone"}, size : {"large"},
          quantity : {1}, restaurant : {"dominos", "slice_house"}]
CheckedOrderIds == 0..(MaxOrders + 1)

\* Mutant of NextOrderId: the ids are counted from zero.
NextOrderIdFromZero == Len(orders_db)

\* len(orders_db) + 1
NextOrderId == Len(orders_db) + 1

order_pizza ==
    \E args \in OrderCalls, error \in FloatErrors :
        LET pizza_type == args.pizza_type
            size == args.size
            quantity == args.quantity
            restaurant == args.restaurant
            customer_name == "Customer"
            base_price == PIZZA_MENU[pizza_type].price
            size_multiplier == SizeMultiplierTenths(size)
            pizza_price == (base_price * size_multiplier) \div 10 + error
            subtotal == pizza_price * quantity
            delivery_fee == RESTAURANTS[restaurant].delivery_fee
            total == subtotal + delivery_fee
            order == [order_id |-> NextOrderId,
                      pizza_type |-> pizza_type,
                      pizza_name |-> PIZZA_MENU[pizza_type].name,
                      size |-> size,
                      quantity |-> quantity,
                      restaurant |-> restaurant,
                      restaurant_name |-> RESTAURANTS[restaurant].name,
                      customer_name |-> customer_name,
                      customer_phone |-> "",
                      delivery_address |-> "",
                      special_instructions |-> "",
                      pizza_price |-> pizza_price,
                      subtotal |-> subtotal,
                      delivery_fee |-> delivery_fee,
                      total |-> total,
                      status |-> "pending",
                      order_time |-> IsoFormat(clock)]
        IN
        /\ scenario \in {"pizza", "pricing", "credentials"}
        /\ IF scenario \in {"pricing", "credentials"} THEN orders_db = <<>>
           ELSE Len(orders_db) < MaxOrders
        /\ call' = [op |-> "order_pizza", pizza_type |-> pizza_type, size |-> size,
                    quantity |-> quantity, restaurant |-> restaurant]
        /\ IF pizza_type \notin DOMAIN PIZZA_MENU
           THEN /\ answer' = "Error: Pizza type '" \o pizza_type
                             \o "' not found. Available types: " \o Join(PizzaIds)
                /\ UNCHANGED orders_db
           ELSE IF restaurant \notin DOMAIN RESTAURANTS
           THEN /\ answer' = "Error: Restaurant '" \o restaurant
                             \o "' not found. Available restaurants: "
                             \o Join(RestaurantIds)
                /\ UNCHANGED orders_db
           ELSE /\ orders_db' = Append(orders_db, order)
                /\ answer' =
                     "Pizza Order Confirmed!\n\n"
                     \o "Order ID: #" \o ToString(order.order_id) \o "\n"
                     \o "Pizza: " \o order.pizza_name \o " (" \o size \o ")\n"
                     \o "Quantity: " \o ToString(quantity) \o "\n"
                     \o "Restaurant: " \o order.restaurant_name \o "\n"
                     \o "Customer: " \o customer_name \o "\n"
                     \o "\nPricing:\n"
                     \o "Pizza Price: $" \o Money(pizza_price) \o " each\n"
                     \o "Subtotal: $" \o Money(subtotal) \o "\n"
                     \o "Delivery Fee: $" \o Money(delivery_fee) \o "\n"
                     \o "Total: $" \o Money(total) \o "\n\n"
                     \o "To complete your order, call: " \o RESTAURANTS[restaurant].phone \o "\n"
                     \o "Status: " \o order.status
        /\ UNCHANGED <<clock, user_responses, user_preferences, calendar, document_store>>
        /\ UNCHANGED <<scenario, assistant>>

\* The text of check_order_status for an order found.
StatusText(order_id, order) ==
    "Order #" \o ToString(order_id) \o " Status\n\n"
    \o "Pizza: " \o order.pizza_name \o " (" \o order.size \o ")\n"
    \o "Quantity: " \o ToString(order.quantity) \o "\n"
    \o "Restaurant: " \o order.restaurant_name \o "\n"
    \o "Customer: " \o order.customer_name \o "\n"
    \o "Total: $" \o Money(order.total) \o "\n"
    \o "Status: " \o order.status \o "\n"
    \o "Order Time: " \o order.order_time \o "\n"
    \o (IF order.delivery_address # ""
        THEN "Delivery Address: " \o order.delivery_address \o "\n" ELSE "")

\* The first order of orders_db from position i on whose order_id is
\* order_id, 0 if there is none.
RECURSIVE FindOrder(_, _)
FindOrder(order_id, i) ==
    IF i > Len(orders_db) THEN 0
    ELSE IF orders_db[i].order_id = order_id THEN i
    ELSE FindOrder(order_id, i + 1)

check_order_status ==
    \E order_id \in CheckedOrderIds :
        LET found == FindOrder(order_id, 1) IN
        /\ scenario \in {"pizza", "pricing"}
        /\ call' = [op |-> "check_order_status", order_id |-> order_id]
        /\ answer' = IF found # 0 THEN StatusText(order_id, orders_db[found])
                     ELSE "Order #" \o ToString(order_id) \o " not found."
        /\ UNCHANGED <<clock, user_responses, user_preferences, calendar, orders_db,
                       document_store>>
        /\ UNCHANGED <<scenario, assistant>>

RECURSIVE OrderLines(_)
OrderLines(n) ==
    IF n = 0 THEN ""
    ELSE OrderLines(n - 1)
         \o "Order #" \o ToString(orders_db[n].order_id) \o ": "
         \o orders_db[n].pizza_name \o " - $" \o Money(orders_db[n].total)
         \o " - " \o orders_db[n].status \o "\n"

list_orders ==
    /\ scenario \in {"pizza", "pricing"}
    /\ call' = [op |-> "list_orders"]
    /\ answer' = IF orders_db = <<>> THEN "No pizza orders found."
                 ELSE "All Pizza Orders (" \o ToString(Len(orders_db)) \o " total):\n\n"
                      \o OrderLines(Len(orders_db))
    /\ UNCHANGED <<clock, user_responses, user_preferences, calendar, orders_db,
                   document_store>>
    /\ UNCHANGED <<scenario, assistant>>

(***************************************************************************)
(* The calendar and the orders exercised.                                  *)
(***************************************************************************)
NextStores ==
    \/ Tick
    \/ schedule_meeting
    \/ list_meetings
    \/ cancel_meeting
    \/ check_availability
    \/ order_pizza
    \/ check_order_status
    \/ list_orders

InitStores == InitServers /\ scenario \in {"calendar", "pizza", "pricing"}

SpecStores == InitStores /\ [][NextStores]_vars

(***************************************************************************)
(* pdf_reader.py: the two readers and the keyword search.  The bullet of   *)
(* the excerpts is written "*".                                            *)
(***************************************************************************)
\* The files on disk: the text of each page and the text that OCR finds in
\* its images.
PdfFiles ==
    <<[key |-> "a.pdf",
       value |-> <<[text |-> "Cats purr. Dogs bark.", ocr |-> "Birds sing."]>>],
      [key |-> "six.pdf",
       value |-> <<[text |-> "cats run. cats sit. cats nap. cats eat. cats hop.", ocr |-> ""],
                   [text |-> "cats and dogs play.", ocr |-> ""]>>]>>

\* The scenarios that call the functions of the PDF reader: "pdf" reads whole
\* files and asks several questions, "pages" reads ranges of pages.
PdfScenarios == {"pdf", "pages"}

\* Largest page number asked for.
MaxPageArg == 3

\* A page_start or page_end: <<>> is None, <<n>> is n.
PageArgs == {<<>>} \cup {<<n>> : n \in (-1)..MaxPageArg}

\* Arguments of the calls made.
ReadPaths == DictKeys(PdfFiles) \cup {"missing.pdf"}
ReadCalls ==
    IF scenario = "pages"
    THEN [file_path : DictKeys(PdfFiles), page_start : PageArgs, page_end : PageArgs]
         \cup [file_path : {"missing.pdf"}, page_start : {<<>>, <<1>>}, page_end : {<<>>}]
    ELSE [file_path : ReadPaths, page_start : {<<>>}, page_end : {<<>>}]
Questions ==
    IF scenario = "pages" THEN {"dogs"}
    ELSE {"cats", "Cats dogs", "what page", "is it"}
AskedPaths == {None, "six.pdf"}

Min(a, b) == IF a < b THEN a ELSE b
Max(a, b) == IF a > b THEN a ELSE b

\* Mutant of PageRange: the end is not raised above the start.
PageRangeMayBeEmpty(page_start, page_end, total_pages) ==
    LET start == IF page_start # <<>> /\ page_start[1] # 0 THEN page_start[1] - 1 ELSE 0
        end == IF page_end # <<>> /\ page_end[1] # 0 THEN page_end[1] ELSE total_pages
        clamped == Max(0, Min(start, total_pages - 1))
    IN  [start |-> clamped, end |-> Min(end, total_pages)]

\* start and end of `for page_num in range(start, end)`.
PageRange(page_start, page_end, total_pages) ==
    LET start == IF page_start # <<>> /\ page_start[1] # 0 THEN page_start[1] - 1 ELSE 0
        end == IF page_end # <<>> /\ page_end[1] # 0 THEN page_end[1] ELSE total_pages
        clamped == Max(0, Min(start, total_pages - 1))
    IN  [start |-> clamped, end |-> Max(clamped + 1, Min(end, total_pages))]

\* Mutant of TextPages: the pages from the first one on.
TextPagesFromFirst(file, start, end) ==
    [n \in 1..end |-> TextPage(n, file[n].text)]

\* The pages that read_pdf_text stores for a file: those of range(start, end).
TextPages(file, start, end) ==
    [i \in 1..(end - start) |-> TextPage(start + i, file[start + i].text)]

\* The pages that read_pdf_with_ocr stores for a file.
OcrPages(file, start, end) ==
    [i \in 1..(end - start) |->
        OcrPage(start + i, file[start + i].text, file[start + i].ocr)]

\* The statistics and the previews of the pages in the answer are left out.
read_pdf_text ==
    \E args \in ReadCalls :
        LET file_path == args.file_path
            file == DictGet(PdfFiles, file_path)
            total_pages == Len(file)
            range == PageRange(args.page_start, args.page_end, total_pages)
        IN
        /\ scenario \in PdfScenarios
        /\ IF file_path \notin DictKeys(PdfFiles)
           THEN /\ call' = [op |-> "read_pdf_text", file_path |-> file_path,
                            page_start |-> args.page_start, page_end |-> args.page_end]
                /\ answer' = "Error: File not found at " \o file_path
                /\ UNCHANGED document_store
           ELSE /\ call' = [op |-> "read_pdf_text", file_path |-> file_path,
                            page_start |-> args.page_start, page_end |-> args.page_end,
                            total_pages |-> total_pages,
                            start |-> range.start, end |-> range.end]
                /\ document_store' =
                     DictSet(document_store, file_path,
                             TextDocument(TextPages(file, range.start, range.end),
                                          total_pages))
                /\ answer' = "Successfully read PDF: " \o file_path \o "\n\n"
                             \o "Pages processed: " \o ToString(range.start + 1) \o "-"
                             \o ToString(range.end)
                             \o " of " \o ToString(total_pages) \o "\n"
        /\ UNCHANGED <<clock, user_responses, user_preferences, calendar, orders_db>>
        /\ UNCHANGED <<scenario, assistant>>

read_pdf_with_ocr ==
    \E args \in ReadCalls :
        LET file_path == args.file_path
            file == DictGet(PdfFiles, file_path)
            total_pages == Len(file)
            range == PageRange(args.page_start, args.page_end, total_pages)
        IN
        /\ scenario \in PdfScenarios
        /\ IF file_path \notin DictKeys(PdfFiles)
           THEN /\ call' = [op |-> "read_pdf_with_ocr", file_path |-> file_path,
                            page_start |-> args.page_start, page_end |-> args.page_end]
                /\ answer' = "Error: File not found at " \o file_path
                /\ UNCHANGED document_store
           ELSE /\ call' = [op |-> "read_pdf_with_ocr", file_path |-> file_path,
                            page_start |-> args.page_start, page_end |-> args.page_end,
                            total_pages |-> total_pages,
                            start |-> range.start, end |-> range.end]
                /\ document_store' =
                     DictSet(document_store, file_path,
                             OcrDocument(OcrPages(file, range.start, range.end),
                                         total_pages))
                /\ answer' = "Successfully processed PDF with OCR: " \o file_path \o "\n\n"
                             \o "Pages processed: " \o ToString(range.start + 1) \o "-"
                             \o ToString(range.end)
                             \o " of " \o ToString(total_pages) \o "\n"
        /\ UNCHANGED <<clock, user_responses, user_preferences, calendar, orders_db>>
        /\ UNCHANGED <<scenario, assistant>>

UpperCase == "ABCDEFGHIJKLMNOPQRSTUVWXYZ"
LowerCase == "abcdefghijklmnopqrstuvwxyz"

\* str.lower(), letter by letter
RECURSIVE LowerCased(_)
LowerCased(s) ==
    IF s = "" THEN ""
    ELSE LET c == SubSeq(s, 1, 1)
             i == Find(UpperCase, c, 1)
         IN  (IF i = 0 THEN c ELSE SubSeq(LowerCase, i, i))
             \o LowerCased(SubSeq(s, 2, Len(s)))

IsSpace(c) == c \in {" ", "\n", "\t"}

\* str.strip(), character by character
RECURSIVE Stripped(_)
Stripped(s) ==
    IF s = "" THEN ""
    ELSE IF IsSpace(SubSeq(s, 1, 1)) THEN Stripped(SubSeq(s, 2, Len(s)))
    ELSE IF IsSpace(SubSeq(s, Len(s), Len(s))) THEN Stripped(SubSeq(s, 1, Len(s) - 1))
    ELSE s

\* str.split(): the words between runs of white space; word is the word
\* being read.
RECURSIVE SplitWords(_, _)
SplitWords(s, word) ==
    IF s = "" THEN (IF word = "" THEN <<>> ELSE <<word>>)
    ELSE IF IsSpace(SubSeq(s, 1, 1))
    THEN (IF word = "" THEN <<>> ELSE <<word>>) \o SplitWords(SubSeq(s, 2, Len(s)), "")
    ELSE SplitWords(SubSeq(s, 2, Len(s)), word \o SubSeq(s, 1, 1))

\* [word for word in question_lower.split() if len(word) > 3]
QuestionWords(question) ==
    SelectSeq(SplitWords(LowerCased(question), ""), LAMBDA word : Len(word) > 3)

\* page_data.get('combined_text') or page_data.get('text', '')
TextContent(page_data) ==
    IF "combined_text" \in DOMAIN page_data /\ page_data.combined_text # ""
    THEN page_data.combined_text
    ELSE page_data.text

\* The text of the first n pages of a document, each under its marker.
RECURSIVE PagesText(_, _, _)
PagesText(prefix, pages, n) ==
    IF n = 0 THEN ""
    ELSE PagesText(prefix, pages, n - 1)
         \o "\n[" \o prefix \o "Page " \o ToString(pages[n].page_number) \o "]\n"
         \o TextContent(pages[n]) \o "\n"

\* The text of the first n documents of the store.
RECURSIVE StoreText(_)
StoreText(n) ==
    IF n = 0 THEN ""
    ELSE StoreText(n - 1)
         \o PagesText(document_store[n].key \o " - ", document_store[n].value.pages,
                      Len(document_store[n].value.pages))

\* Whether one document is searched: `file_path and file_path in document_store`.
OneDocument(file_path) == file_path # None /\ file_path \in DictKeys(document_store)

\* all_text
AllText(file_path) ==
    IF OneDocument(file_path)
    THEN PagesText("", DictGet(document_store, file_path).pages,
                   Len(DictGet(document_store, file_path).pages))
    ELSE StoreText(Len(document_store))

\* sources
Sources(file_path) ==
    IF OneDocument(file_path) THEN <<file_path>>
    ELSE [i \in 1..Len(document_store) |-> document_store[i].key]

\* sum(1 for word in question_words if word in sentence_lower)
Matches(question_words, sentence) ==
    Cardinality({i \in 1..Len(question_words) :
                    Contains(LowerCased(sentence), question_words[i])})

\* relevant_sentences: the stripped sentences with a match, with their
\* numbers of matches, in the order of the text.
RECURSIVE RelevantSentences(_, _)
RelevantSentences(question_words, sentences) ==
    IF sentences = <<>> THEN <<>>
    ELSE LET matches == Matches(question_words, Head(sentences)) IN
         (IF matches > 0
          THEN <<[sentence |-> Stripped(Head(sentences)), matches |-> matches]>>
          ELSE <<>>)
         \o RelevantSentences(question_words, Tail(sentences))

\* An item put into a list sorted by matches, behind the items with as many.
RECURSIVE InsertByMatches(_, _)
InsertByMatches(item, sorted) ==
    IF sorted = <<>> THEN <<item>>
    ELSE IF item.matches > Head(sorted).matches THEN <<item>> \o sorted
    ELSE <<Head(sorted)>> \o InsertByMatches(item, Tail(sorted))

\* Mutant of SortByMatches: the list is left in the order of the text.
KeepTextOrder(relevant) == relevant

\* relevant_sentences.sort(key=lambda x: x[1], reverse=True), a stable sort.
RECURSIVE SortByMatches(_)
SortByMatches(relevant) ==
    IF relevant = <<>> THEN <<>>
    ELSE InsertByMatches(relevant[Len(relevant)],
                         SortByMatches(SubSeq(relevant, 1, Len(relevant) - 1)))

\* relevant_sentences[:5]
MaxExcerpts == 5
FirstExcerpts(sorted) ==
    IF Len(sorted) <= MaxExcerpts THEN sorted ELSE SubSeq(sorted, 1, MaxExcerpts)

RECURSIVE Excerpts(_)
Excerpts(items) ==
    IF items = <<>> THEN ""
    ELSE (IF Head(items).sentence # "" THEN "* " \o Head(items).sentence \o "\n\n" ELSE "")
         \o Excerpts(Tail(items))

CouldNotFind(question) ==
    "Could not find relevant information about '" \o question
    \o "' in the loaded PDF(s).\n\nTry:\n* Loading more content from the PDF\n"
    \o "* Using different keywords\n* Reading with OCR if the content is in images"

ask_question_about_pdf ==
    \E question \in Questions, file_path \in AskedPaths :
        LET all_text == AllText(file_path)
            sources == Sources(file_path)
            sentences == Split(all_text, ".")
            question_words == QuestionWords(question)
            relevant_sentences ==
                SortByMatches(RelevantSentences(question_words, sentences))
        IN
        /\ scenario \in PdfScenarios
        /\ call' = [op |-> "ask_question_about_pdf", question |-> question,
                    file_path |-> file_path]
        /\ answer' =
             IF document_store = <<>>
             THEN "Error: No PDF files have been loaded. Please use read_pdf_text or read_pdf_with_ocr first."
             ELSE IF Stripped(all_text) = ""
             THEN "Error: No text content found in the loaded PDF(s)."
             ELSE IF relevant_sentences # <<>>
             THEN "Answer based on " \o ToString(Len(sources)) \o " document(s):\n\n"
                  \o "Question: " \o question \o "\n\n"
                  \o "Relevant excerpts:\n\n"
                  \o Excerpts(FirstExcerpts(relevant_sentences))
                  \o "\nSources: " \o Join(sources)
             ELSE CouldNotFind(question)
        /\ UNCHANGED <<clock, user_responses, user_preferences, calendar, orders_db,
                       document_store>>
        /\ UNCHANGED <<scenario, assistant>>

NextPdf ==
    \/ read_pdf_text
    \/ read_pdf_with_ocr
    \/ ask_question_about_pdf

InitPdf == InitServers /\ scenario = "pdf"

SpecPdf == InitPdf /\ [][NextPdf]_vars

InitPages == InitServers /\ scenario = "pages"

SpecPages == InitPages /\ [][NextPdf]_vars

\* The questions server called directly.
NextQuestions ==
    \/ Tick
    \/ ask_clarifying_question
    \/ ask_personal_information
    \/ ask_preference_question
    \/ ask_confirmation
    \/ get_user_response
    \/ list_pending_questions

InitQuestions == InitServers /\ scenario = "questions"

SpecQuestions == InitQuestions /\ [][NextQuestions]_vars


(***************************************************************************)
(* The calendar, the orders and the questions exercised: the servers that  *)
(* take dates, names and ids from the user, with the clarifying and the    *)
(* preference questions as the records of the question store.              *)
(***************************************************************************)
NextInputs ==
    \/ Tick
    \/ schedule_meeting
    \/ list_meetings
    \/ cancel_meeting
    \/ check_availability
    \/ order_pizza
    \/ check_order_status
    \/ list_orders
    \/ ask_clarifying_question
    \/ ask_preference_question
    \/ get_user_response
    \/ list_pending_questions

InitInputs == InitServers /\ scenario \in {"calendar", "pizza", "questions"}

SpecInputs == InitInputs /\ [][NextInputs]_vars

(***************************************************************************)
(* The calendar as the tools of the assistant and of the MCP server reach  *)
(* it.                                                                     *)
(***************************************************************************)
NextAvailability ==
    \/ schedule_meeting
    \/ cancel_meeting
    \/ check_availability
    \/ check_availability_tool

InitAvailability == InitServers /\ scenario = "calendar"

SpecAvailability == InitAvailability /\ [][NextAvailability]_vars

(***************************************************************************)
(* email_sender.py, and the tools that need credentials: scenario          *)
(* "credentials" calls send_email with and without RESEND_API_KEY and the  *)
(* functions of the calendar with every state of token.json, next to       *)
(* order_pizza, which needs none.                                          *)
(***************************************************************************)
\* resend.api_key = os.getenv("RESEND_API_KEY")
ApiKeys == {None, "", "re_123"}

EmailCalls ==
    {[to |-> <<"ann@example.com">>, subject |-> "Hello", body |-> "Hi<br>there"],
     [to |-> <<"ann@example.com", "bob@example.com">>, subject |-> "Hello",
      body |-> "<p>Hi</p>"],
     [to |-> <<>>, subject |-> "Hello", body |-> "Hi"]}

\* How resend.Emails.send answers: with the id of the email, or it raises.
SendOutcomes == {"sent", "failed"}

\* s.replace(old, new)
RECURSIVE Replace(_, _, _)
Replace(s, old, new) ==
    IF Len(s) < Len(old) THEN s
    ELSE IF SubSeq(s, 1, Len(old)) = old
    THEN new \o Replace(SubSeq(s, Len(old) + 1, Len(s)), old, new)
    ELSE SubSeq(s, 1, 1) \o Replace(SubSeq(s, 2, Len(s)), old, new)

\* str(items) of a list of strings
ListRepr(items) ==
    "[" \o Join([i \in 1..Len(items) |-> "'" \o items[i] \o "'"]) \o "]"

send_email ==
    \E args \in EmailCalls, api_key \in ApiKeys, outcome \in SendOutcomes :
        LET to == args.to
            subject == args.subject
            body == args.body
            from_email == "onboarding@resend.dev"
            missing == to = <<>> \/ subject = "" \/ body = ""
            keyless == api_key = None \/ api_key = ""
            text_fallback ==
                Replace(Replace(Replace(Replace(Replace(body,
                    "<br>", "\n"), "<br/>", "\n"), "<br />", "\n"), "</p>", "\n"), "<p>", "")
            to_text == IF Len(to) = 1 THEN to[1] ELSE ListRepr(to)
            params == [from |-> from_email, to |-> to_text, subject |-> subject,
                       html |-> body, text |-> text_fallback]
        IN
        /\ scenario = "credentials"
        /\ call' = [op |-> "send_email", to |-> to, subject |-> subject, body |-> body,
                    api_key |-> api_key, outcome |-> outcome,
                    requests |-> IF missing \/ keyless THEN <<>> ELSE <<params>>]
        /\ answer' =
             IF missing THEN "Error: Missing required fields (to, subject, body)"
             ELSE IF keyless THEN "Error: RESEND_API_KEY not found in environment variables"
             ELSE IF outcome = "failed"
             THEN "Error sending email: API key is invalid"
             ELSE "Email sent successfully! id=email_1 to=" \o to_text
                  \o " subject=" \o subject
        /\ UNCHANGED <<clock, user_responses, user_preferences, calendar, orders_db,
                       document_store>>
        /\ UNCHANGED <<scenario, assistant>>

UpdateCalls ==
    {[event_id |-> EventId(1), title |-> "Review", date |-> "2025-01-03", time |-> "11:00"],
     [event_id |-> "missing", title |-> None, date |-> None, time |-> None]}

\* The status of events().get(eventId): 200, 404 for an id the calendar
\* never held, 200 or 404 for an event deleted before.
GetStatuses(event_id) ==
    IF \E i \in 1..Len(calendar) : calendar[i].id = event_id /\ calendar[i].status = "confirmed"
    THEN {200}
    ELSE IF \E i \in 1..Len(calendar) : calendar[i].id = event_id
    THEN {200, 404}
    ELSE {404}

\* events().get(calendarId='primary', eventId=event_id).execute()
EventsGet(event_id) ==
    EventResource(calendar[CHOOSE i \in 1..Len(calendar) : calendar[i].id = event_id])

\* The calendar after events().update(eventId, body=event).execute(): the
\* times are kept without the UTC offset.
EventsUpdate(event_id, event) ==
    LET kept == RecSet(RecSet(event,
                    "start", [dateTime |-> SubSeq(event.start.dateTime, 1, 19),
                              timeZone |-> event.start.timeZone]),
                    "end", [dateTime |-> SubSeq(event.end.dateTime, 1, 19),
                            timeZone |-> event.end.timeZone])
    IN  [i \in 1..Len(calendar) |->
            IF calendar[i].id = event_id THEN kept ELSE calendar[i]]

update_meeting ==
    \E args \in UpdateCalls, token \in Tokens :
      \E service \in get_calendar_service(token), status \in GetStatuses(args.event_id) :
        LET event_id == args.event_id
            title == args.title
            date == args.date
            time == args.time
            event == EventsGet(event_id)
            titled == IF title # None /\ title # ""
                      THEN RecSet(event, "summary", title) ELSE event
            start_datetime == ParseDateTime(date, time).value
            old_start == FromIsoFormat(event.start.dateTime)
            old_end == FromIsoFormat(event.end.dateTime)
            end_datetime == start_datetime + (old_end - old_start)
            moved == IF date # None /\ time # None
                     THEN RecSet(RecSet(titled,
                              "start", [dateTime |-> DateTimeIso(start_datetime),
                                        timeZone |-> "America/Chicago"]),
                              "end", [dateTime |-> DateTimeIso(end_datetime),
                                      timeZone |-> "America/Chicago"])
                     ELSE titled
        IN
        /\ scenario = "credentials"
        /\ call' = [op |-> "update_meeting", event_id |-> event_id, title |-> title,
                    date |-> date, time |-> time, service |-> service, token |-> token,
                    requests |-> ProviderRequests(token, service,
                        IF service = "ok" /\ status = 200
                        THEN <<"events.get", "events.update">> ELSE <<"events.get">>)]
        /\ IF service = "unauthenticated"
           THEN answer' = NotAuthenticated /\ UNCHANGED calendar
           ELSE IF service = "refresh_failed"
           THEN /\ answer' = "Error updating meeting: " \o RefreshErrorText
                /\ UNCHANGED calendar
           ELSE IF service = "unavailable"
           THEN /\ answer' = "Google Calendar API error: " \o HttpErrorText(503)
                /\ UNCHANGED calendar
           ELSE IF status = 404
           THEN /\ answer' = "Error: Meeting not found (ID: " \o event_id \o ")"
                /\ UNCHANGED calendar
           ELSE /\ calendar' = EventsUpdate(event_id, moved)
                /\ answer' = "Meeting updated successfully!\n\nID: " \o event_id
                             \o "\nLink: " \o moved.htmlLink
        /\ UNCHANGED <<clock, user_responses, user_preferences, orders_db, document_store>>
        /\ UNCHANGED <<scenario, assistant>>

NextCredentials ==
    \/ send_email
    \/ schedule_meeting
    \/ list_meetings
    \/ cancel_meeting
    \/ check_availability
    \/ update_meeting
    \/ order_pizza

InitCredentials == InitServers /\ scenario = "credentials"

SpecCredentials == InitCredentials /\ [][NextCredentials]_vars
(***************************************************************************)
(* Properties of a turn.                                                   *)
(***************************************************************************)
IsToolUse(block) == block.type = "tool_use"
IsText(block) == block.type = "text"

\* The tool_use blocks of a response content, in order.
ToolUses(content) == SelectSeq(content, IsToolUse)

\* Number of messages.create calls made so far by this call of
\* process_with_claude.
ModelCalls == Cardinality({i \in 1..Len(events) : events[i].kind = "model_call"})

\* process_with_claude has returned and its caller has not resumed yet.
Returned == pc = "ret"

\* C1: whenever the second model call is issued, the last message of that
\* call is a user message holding exactly one tool_result per tool_use block
\* of the first response: as many results as blocks, the i-th result keyed by
\* the i-th block's id, and every block's id answered exactly once.
C1_OneResultPerToolUse ==
    ModelCalls = 2 =>
        LET last == messages[Len(messages)]
            uses == ToolUses(response.content)
        IN  /\ last.role = "user"
            /\ DOMAIN last.content = {"tool_results"}
            /\ Len(last.content.tool_results) = Len(uses)
            /\ \A i \in 1..Len(uses) :
                 /\ last.content.tool_results[i].type = "tool_result"
                 /\ last.content.tool_results[i].tool_use_id = uses[i].id
                 /\ Cardinality({j \in 1..Len(last.content.tool_results) :
                        last.content.tool_results[j].tool_use_id = uses[i].id}) = 1

\* C1 witness: a second model call after a response with two tool_use blocks
\* whose ids are not in ascending order.
C1_Witness ==
    /\ ModelCalls = 2
    /\ Len(ToolUses(response.content)) = 2
    /\ response.content[1].id = ToolId(2)
    /\ messages[Len(messages)].content.tool_results[2].tool_use_id = ToolId(1)

\* C2 (as claimed): a failing tool never aborts the turn.  For every first
\* response with stop reason tool_use and at least one tool_use block,
\* process_with_claude returns only after every tool_use block has its
\* result and the second model call was issued.
C2_NoToolAbortsTheTurn ==
    (Returned /\ response.stop_reason = "tool_use"
              /\ ToolUses(response.content) # <<>>) =>
        /\ Len(tool_results) = Len(ToolUses(response.content))
        /\ ModelCalls = 2

\* C3: one call of process_with_claude makes at most two model calls, and
\* every tool execution happens after the first model call and before the
\* second, so no tool_use block of the second response is ever executed.
C3_TwoCallsOneRound ==
    /\ ModelCalls <= 2
    /\ \A i \in 1..Len(events) :
         events[i].kind = "tool_exec" =>
            /\ Cardinality({j \in 1..(i - 1) : events[j].kind = "model_call"}) = 1
            /\ final_response = NoResponse \/ ModelCalls = 2
            /\ events[i].block \in 1..Len(response.content)
            /\ IsToolUse(response.content[events[i].block])

\* C3 witness: the turn has ended after a second response that holds a
\* tool_use block, and a tool of the first response was executed.
C3_Witness ==
    /\ Returned
    /\ ModelCalls = 2
    /\ ToolUses(final_response.content) # <<>>
    /\ \E i \in 1..Len(events) : events[i].kind = "tool_exec"

\* C4 (as claimed): a tool_use block whose name the dispatcher does not know
\* is answered with "Unknown tool: <name>" under its own id, every other
\* tool_use block of the response is answered too, and the second model call
\* is made.
C4_UnknownToolAnswered ==
    (Returned /\ response.stop_reason = "tool_use") =>
        \A i \in 1..Len(response.content) :
            (/\ IsToolUse(response.content[i])
             /\ response.content[i].name \notin DispatchedTools) =>
                /\ \E j \in 1..Len(tool_results) :
                     /\ tool_results[j].tool_use_id = response.content[i].id
                     /\ tool_results[j].content = UnknownTool(response.content[i].name)
                /\ Len(tool_results) = Len(ToolUses(response.content))
                /\ ModelCalls = 2

\* Position of the first text block of a content that has one.
FirstTextAt(content) ==
    CHOOSE i \in 1..Len(content) :
        /\ IsText(content[i])
        /\ \A j \in 1..(i - 1) : ~IsText(content[j])

\* C5 (as claimed): when a second response was received and it holds a text
\* segment, wherever its tool_use blocks are, process_with_claude returns the
\* first text segment of that response verbatim.
C5_ReturnsFirstTextSegment ==
    (/\ Returned
     /\ final_response # NoResponse
     /\ \E i \in 1..Len(final_response.content) : IsText(final_response.content[i])) =>
        ret = final_response.content[FirstTextAt(final_response.content)].text

\* The text fragments of a content, concatenated in order.
RECURSIVE ConcatTexts(_)
ConcatTexts(content) ==
    IF Len(content) = 0 THEN ""
    ELSE (IF IsText(content[1]) THEN content[1].text ELSE "")
         \o ConcatTexts(SubSeq(content, 2, Len(content)))

\* C6: when no tool_use block was dispatched (no tool result exists), exactly
\* one model call is made; the answer is the text of the first block of a
\* plain-text completion, and the in-order concatenation of the text
\* fragments of a response that stopped for tool_use without any tool_use
\* block.  When tool results exist, no text fragment of the first response,
\* nor their concatenation, is returned.
C6_FallbackText ==
    (Returned /\ claude_client) =>
        /\ tool_results = <<>> => ModelCalls = 1
        /\ (/\ response.stop_reason \notin {"none", "tool_use"}
            /\ response.content # <<>>
            /\ IsText(response.content[1])) =>
                /\ ret = response.content[1].text
                /\ tool_results = <<>>
        /\ (/\ response.stop_reason = "tool_use"
            /\ ToolUses(response.content) = <<>>) =>
                /\ ret = ConcatTexts(response.content)
                /\ tool_results = <<>>
        /\ tool_results # <<>> =>
                \A i \in 1..Len(response.content) :
                    IsText(response.content[i]) =>
                        /\ ret # response.content[i].text
                        /\ ret # ConcatTexts(response.content)

\* C6 witness: a response that stopped for tool_use with two text blocks and
\* no tool_use block was answered with both texts, after one model call.
C6_Witness ==
    /\ Returned
    /\ response.stop_reason = "tool_use"
    /\ Len(response.content) = 2
    /\ ToolUses(response.content) = <<>>
    /\ ret = FirstText(1) \o FirstText(2)
    /\ ModelCalls = 1

\* C7: process_with_claude never raises: whenever an exception with message
\* m was raised inside it, it returns "Error processing with Claude: m";
\* run() then stores that string as the reply of the newest turn and is back
\* at the prompt.
C7_ExceptionsBecomeReplies ==
    /\ [](/\ pc \in {"idle", "entry", "tools", "ret"}
          /\ (Returned /\ caught # "") => ret = ErrorProcessing(caught))
    /\ [][(loop = "awaiting" /\ Returned /\ caught # "") =>
            /\ conversation_history' =
                 [conversation_history EXCEPT
                    ![Len(conversation_history)].assistant = ErrorProcessing(caught)]
            /\ loop' = "input"
            /\ pc' = "idle"]_vars

\* C7 witness: the session is back at the prompt and the reply stored for the
\* turn is the error string of a failed model call.
C7_Witness ==
    /\ loop = "input"
    /\ pc = "idle"
    /\ Len(conversation_history) = 1
    /\ conversation_history[1].assistant = ErrorProcessing(ApiErrorMessage)

\* C8: without a model client the session is disabled: run() returns without
\* ever being at the prompt, no conversation turn exists, and
\* process_with_claude returns the fixed "Claude API not available" string
\* having made no model call, built no message and executed no tool.
C8_NoClientNoSession ==
    ~claude_client =>
        /\ loop \in {"new", "returned"}
        /\ conversation_history = <<>>
        /\ events = <<>>
        /\ messages = <<>>
        /\ tool_results = <<>>
        /\ Returned => ret = ClaudeUnavailable

\* C8 witness: run() has returned and a later call of process_with_claude
\* has returned as well, all without a client.
C8_Witness ==
    /\ ~claude_client
    /\ loop = "returned"
    /\ Returned
    /\ ret = ClaudeUnavailable

(***************************************************************************)
(* Properties of the conversation history.                                 *)
(***************************************************************************)
\* The message list of the first model call of the current call of
\* process_with_claude (the second call appends two messages to it).
FirstCallMessages ==
    IF ModelCalls = 2 THEN SubSeq(messages, 1, Len(messages) - 2) ELSE messages

\* Index of the oldest of the 10 most recent entries of a history.
WindowStart(history) == IF Len(history) > 10 THEN Len(history) - 9 ELSE 1

\* The replay of the entries k.. of a history, oldest first: the user text of
\* each and then its assistant text; with skipEmpty, an entry whose assistant
\* text is empty contributes its user text only.
RECURSIVE Replay(_, _, _)
Replay(history, k, skipEmpty) ==
    IF k > Len(history) THEN <<>>
    ELSE <<[role |-> "user", content |-> [text |-> history[k].user]]>>
         \o (IF skipEmpty /\ history[k].assistant = ""
             THEN <<>>
             ELSE <<[role |-> "assistant", content |-> [text |-> history[k].assistant]]>>)
         \o Replay(history, k + 1, skipEmpty)

\* C9 (as claimed): the message list of the first model call is the replay of
\* the 10 most recent entries, each contributing its user text and then its
\* assistant text, followed by the new user text.
C9_EveryEntryGivesTwoMessages ==
    ModelCalls >= 1 =>
        FirstCallMessages =
            Replay(conversation_history, WindowStart(conversation_history), FALSE)
            \o <<[role |-> "user", content |-> [text |-> user_message]]>>

\* C9 (amended): the message list of the first model call is the replay of
\* the at most 10 most recent entries, oldest first, each contributing its
\* user text and then, unless it is empty, its assistant text, followed by
\* the new user text; no text of an older entry occurs in it and it has at
\* most 21 messages.
C9_WindowReplay ==
    ModelCalls >= 1 =>
        /\ FirstCallMessages =
              Replay(conversation_history, WindowStart(conversation_history), TRUE)
              \o <<[role |-> "user", content |-> [text |-> user_message]]>>
        /\ Len(FirstCallMessages) <= 21
        /\ \A k \in 1..(WindowStart(conversation_history) - 1) :
             \A i \in 1..Len(FirstCallMessages) :
                FirstCallMessages[i].content.text # conversation_history[k].user

\* C9 witness: a model call over a history of 12 entries, the last 10 of them
\* answered, so that the list has 21 messages.
C9_Witness ==
    /\ ModelCalls >= 1
    /\ Len(conversation_history) = 12
    /\ Len(FirstCallMessages) = 21

\* C10: conversation_history changes only by the append of one entry with an
\* empty assistant field for a submitted line (not empty, not a quit
\* command), and by one write of the reply into the assistant field of the
\* newest entry, which was not written before; process_with_claude leaves it
\* unchanged; every entry but the newest has been written exactly once.
C10_HistoryAppendAndOneWrite ==
    /\ [][\/ conversation_history' = conversation_history
          \/ /\ loop = "input"
             /\ pc = "idle"
             /\ user_message' # ""
             /\ Lower(user_message') \notin {"quit", "exit", "bye"}
             /\ conversation_history' =
                  Append(conversation_history,
                         [user |-> user_message', assistant |-> ""])
          \/ /\ loop = "awaiting"
             /\ Returned
             /\ pc' = "idle"
             /\ assistant_writes[Len(conversation_history)] = 0
             /\ conversation_history' =
                  [conversation_history EXCEPT
                     ![Len(conversation_history)].assistant = ret]]_vars
    /\ [][(pc \in {"entry", "tools"}) =>
             (conversation_history' = conversation_history)]_vars
    /\ [](/\ Len(assistant_writes) = Len(conversation_history)
          /\ \A i \in 1..Len(assistant_writes) :
               /\ assistant_writes[i] <= 1
               /\ (i < Len(assistant_writes) \/ (loop = "input" /\ pc = "idle")) =>
                      assistant_writes[i] = 1)

\* C10 witness: the session is at the prompt with 12 entries, each written
\* once, the oldest still in place.
C10_Witness ==
    /\ loop = "input"
    /\ Len(conversation_history) = 12
    /\ conversation_history[1].user = UserText(1)
    /\ \A i \in 1..12 : assistant_writes[i] = 1

(***************************************************************************)
(* Properties of the tool tables.                                          *)
(***************************************************************************)
\* The tool_use blocks the for loop has gone through.
Dispatched == {i \in 1..Len(response.content) : i < idx /\ IsToolUse(response.content[i])}

\* C11 (as claimed): the declared, the registered and the dispatched tool
\* names are one set: every tool_use block the dispatcher has gone through
\* that names a declared tool or a tool registered in available_tools was
\* executed by its executor and was not answered with "Unknown tool".
C11_RegisteredToolsExecuted ==
    \A i \in Dispatched :
        LET block == response.content[i] IN
        block.name \in DeclaredTools \cup AvailableTools =>
            /\ \E k \in 1..Len(events) : events[k] = ToolExec(i, block.name)
            /\ \A j \in 1..Len(tool_results) :
                  tool_results[j].tool_use_id = block.id =>
                      tool_results[j].content # UnknownTool(block.name)

(***************************************************************************)
(* Properties of the questions server.                                     *)
(***************************************************************************)
\* The item of the listing for the i-th pending question, up to its type.
PendingItem(pending, i) ==
    ToString(i) \o ". " \o pending[i].question \o "\n"
    \o "   Type: " \o pending[i].question_type \o "\n"

\* C12 (as claimed): list_pending_questions lists all pending questions.
\* Right after a call, the string returned is "No pending questions." when no
\* record is unanswered, and otherwise a listing that gives the number of
\* records with answered = false and has one numbered item, with question and
\* type, for each of them, whatever their types.
C12_ListsAllPending ==
    call.op = "list_pending_questions" =>
        IF PendingQuestions = <<>>
        THEN answer = "No pending questions."
        ELSE /\ Contains(answer, "Pending Questions ("
                                 \o ToString(Len(PendingQuestions)) \o " total):")
             /\ \A i \in 1..Len(PendingQuestions) :
                  Contains(answer, PendingItem(PendingQuestions, i))

\* The counter of a question id: the digits between its first two
\* underscores.
Counter(question_id) ==
    LET a == Find(question_id, "_", 1)
        b == Find(question_id, "_", a + 1)
    IN  ParseNat(SubSeq(question_id, a + 1, b - 1))

\* A call of one of the four asking functions.
AskStep ==
    \/ ask_clarifying_question
    \/ ask_personal_information
    \/ ask_preference_question
    \/ ask_confirmation

\* C20: each call of an asking function adds exactly one record, with
\* answered = false, at the end of user_responses, under a question id that
\* is no key yet and whose counter is greater than the counter of every
\* earlier id; the records present before are all kept as they were.  No
\* other function adds or removes a record, so a key once used stays used.
C20_AskAddsOneFreshRecord ==
    /\ [][AskStep =>
            /\ Len(user_responses') = Len(user_responses) + 1
            /\ SubSeq(user_responses', 1, Len(user_responses)) = user_responses
            /\ LET new == user_responses'[Len(user_responses')] IN
               /\ new.key = call'.question_id
               /\ new.value.answered = FALSE
               /\ new.key \notin DictKeys(user_responses)
               /\ \A k \in DictKeys(user_responses) : Counter(new.key) > Counter(k)]_vars
    /\ [][~AskStep =>
            /\ Len(user_responses') = Len(user_responses)
            /\ \A i \in 1..Len(user_responses) :
                 user_responses'[i].key = user_responses[i].key]_vars

\* C20 witness: two clarifying questions asked within the same second are
\* both stored, under ids that differ in the counter only.
C20_Witness ==
    /\ Len(user_responses) = 2
    /\ user_responses[1].key = "q_1_" \o StrfTime(0)
    /\ user_responses[2].key = "q_2_" \o StrfTime(0)
    /\ ~user_responses[1].value.answered
    /\ ~user_responses[2].value.answered
(***************************************************************************)
(* Properties of the meeting scheduler and of the pizza orders.            *)
(***************************************************************************)
\* The meetings of the calendar that were not cancelled.
Meetings == {i \in 1..Len(calendar) : calendar[i].status = "confirmed"}

\* Start and end of a meeting as scheduled, in the local time of the calls.
MeetingStart(i) == FromIsoFormat(calendar[i].start.dateTime)
MeetingEnd(i) == FromIsoFormat(calendar[i].end.dateTime)

\* The slot that the last call of check_availability asked for.
RequestedStart == ParseDateTime(call.date, call.start_time)
RequestedEnd ==
    IF call.end_time # None THEN ParseDateTime(call.date, call.end_time)
    ELSE Parsed(RequestedStart.value + call.duration_minutes * 60)

\* check_availability was called for a slot [s1, e1) with s1 < e1 and the
\* calendar answered.
AvailabilityChecked ==
    /\ call.op = "check_availability"
    /\ call.service = "ok"
    /\ RequestedStart.ok /\ RequestedEnd.ok
    /\ RequestedStart.value < RequestedEnd.value

\* C13 (as claimed): right after check_availability for a slot [s1, e1), a
\* conflict is reported exactly when some meeting [s2, e2) of the calendar,
\* as it was scheduled, has s1 < e2 and s2 < e1; otherwise the slot is
\* reported available.  Slots that only touch do not conflict.
C13_ConflictIffOverlap ==
    AvailabilityChecked =>
        LET overlap == \E i \in Meetings :
                          /\ RequestedStart.value < MeetingEnd(i)
                          /\ MeetingStart(i) < RequestedEnd.value
        IN  /\ overlap => Contains(answer, "Time slot has conflicts")
            /\ ~overlap => Contains(answer, "Time slot is available!")

\* The entry that list_meetings owes to the i-th meeting of the calendar,
\* listed at position n: title, start time, location and attendees as they
\* were passed to schedule_meeting.
OwedEntry(n, i) ==
    ToString(n) \o ". " \o calendar[i].summary \o "\n"
    \o "   " \o StrfDateTime(MeetingStart(i)) \o "\n"
    \o (IF "location" \in DOMAIN calendar[i]
        THEN "   " \o calendar[i].location \o "\n" ELSE "")
    \o (IF "attendees" \in DOMAIN calendar[i]
        THEN "   " \o Join([a \in 1..Len(calendar[i].attendees) |->
                              calendar[i].attendees[a].email]) \o "\n"
        ELSE "")

\* C14 (as claimed): right after list_meetings on a calendar that answers,
\* called without a date or with the date of the meeting: with no meeting
\* scheduled the "no meetings" message is returned, and after exactly one
\* successful schedule_meeting, whatever its date and time, a single entry
\* with the title, start time, location and attendees that were passed.
C14_ListRoundTrip ==
    (call.op = "list_meetings" /\ call.service = "ok") =>
        /\ (calendar = <<>> /\ (call.date = None \/ ParseDate(call.date).ok)) =>
              answer = (IF call.date = None THEN "No upcoming meetings found"
                        ELSE "No meetings found on " \o call.date)
        /\ (Len(calendar) = 1 /\ Meetings = {1}
            /\ (call.date = None
                \/ call.date = SubSeq(calendar[1].start.dateTime, 1, 10))) =>
              /\ Contains(answer, "Found 1 meeting(s):")
              /\ Contains(answer, OwedEntry(1, 1))

\* The calendar never held an event with this id.
NeverHeld(event_id) == \A i \in 1..Len(calendar) : calendar[i].id # event_id

\* No order carries this id.
NoSuchOrder(order_id) == \A i \in 1..Len(orders_db) : orders_db[i].order_id # order_id

ListedTotal(order) ==
    LET multiplier == IF order.size = "small" THEN 8
                      ELSE IF order.size = "large" THEN 12
                      ELSE IF order.size = "extra_large" THEN 14
                      ELSE 10
    IN  (PIZZA_MENU[order.pizza_type].price * multiplier * order.quantity) \div 10
        + RESTAURANTS[order.restaurant].delivery_fee

\* C16: the total stored with every order equals, to the cent, base price
\* times size multiplier times quantity plus the delivery fee of the
\* restaurant, where a size that is no key of the table counts 1.0; and an
\* order for a pizza of the menu at a known restaurant is accepted whatever
\* its size: it is stored and confirmed with that total.
C16_TotalByPriceList ==
    /\ \A i \in 1..Len(orders_db) :
         Cents(orders_db[i].total) = Cents(ListedTotal(orders_db[i]))
    /\ (/\ call.op = "order_pizza"
        /\ call.pizza_type \in DOMAIN PIZZA_MENU
        /\ call.restaurant \in DOMAIN RESTAURANTS) =>
          /\ orders_db # <<>>
          /\ LET order == orders_db[Len(orders_db)] IN
             /\ order.size = call.size /\ order.quantity = call.quantity
             /\ order.pizza_type = call.pizza_type
             /\ order.restaurant = call.restaurant
             /\ Contains(answer, "Total: $" \o Money(ListedTotal(order)) \o "\n")

\* C16 witness: three supreme pizzas of the unknown size "family" from
\* papa_johns are stored with a total of $64.96, the stored number being
\* off the exact sum by a floating-point error.
C16_Witness ==
    /\ orders_db # <<>>
    /\ orders_db[1].pizza_type = "supreme" /\ orders_db[1].size = "family"
    /\ orders_db[1].quantity = 3 /\ orders_db[1].restaurant = "papa_johns"
    /\ Cents(orders_db[1].total) = 6496
    /\ orders_db[1].total # ListedTotal(orders_db[1])

\* C17: the orders carry the ids 1..n in the order of their creation and
\* the status "pending"; no call changes or removes an order, so the status
\* stays and a rejected order_pizza uses up no id; and right after
\* check_order_status(k) with 1 <= k <= n the answer is the status text of
\* the k-th order created.
C17_OrderIdsAndStatus ==
    /\ [](\A i \in 1..Len(orders_db) :
            orders_db[i].order_id = i /\ orders_db[i].status = "pending")
    /\ []((call.op = "check_order_status" /\ call.order_id \in 1..Len(orders_db)) =>
            answer = StatusText(call.order_id, orders_db[call.order_id]))
    /\ [][/\ Len(orders_db') >= Len(orders_db)
          /\ SubSeq(orders_db', 1, Len(orders_db)) = orders_db
          /\ (order_pizza /\ Contains(answer', "Error: ")) => orders_db' = orders_db]_vars

\* C17 witness: two different orders were placed and the status of the
\* second was asked for and given.
C17_Witness ==
    /\ Len(orders_db) = 2
    /\ orders_db[1].pizza_type # orders_db[2].pizza_type
    /\ call.op = "check_order_status" /\ call.order_id = 2
    /\ Contains(answer, "Order #2 Status")
    /\ Contains(answer, orders_db[2].pizza_name)
(***************************************************************************)
(* Properties of the keyword search of the PDF reader.                     *)
(***************************************************************************)
\* The documents that a question with this file_path searches.
Searched(file_path) ==
    IF OneDocument(file_path) THEN {DictGet(document_store, file_path)}
    ELSE {document_store[i].value : i \in 1..Len(document_store)}

\* The sentences stored: the period-delimited fragments of the page texts
\* of the documents searched, without the white space around them.
StoredSentences(file_path) ==
    UNION {UNION {LET fragments == Split(TextContent(doc.pages[p]), ".")
                  IN  {Stripped(fragments[i]) : i \in 1..Len(fragments)}
                  : p \in 1..Len(doc.pages)}
           : doc \in Searched(file_path)} \ {""}

\* A question was asked with documents loaded.
Asked == call.op = "ask_question_about_pdf" /\ document_store # <<>>

\* C18 (as claimed): right after a question, every stored sentence that
\* contains at least one keyword of the question appears among the excerpts
\* returned.
C18_EveryMatchReturned ==
    Asked =>
        \A sentence \in StoredSentences(call.file_path) :
            Matches(QuestionWords(call.question), sentence) > 0 =>
                Contains(answer, sentence \o "\n\n")

\* The fragments of the text searched that contain a keyword, in the order
\* of the text, with their numbers of matched keywords.
Matching == RelevantSentences(QuestionWords(call.question),
                              Split(AllText(call.file_path), "."))

\* The number of excerpts in an answer.
CountExcerpts(s) ==
    Cardinality({i \in 1..(Len(s) - 3) : SubSeq(s, i, i + 3) = "\n\n* "})

\* C18 (amended): right after a question, at most five excerpts are
\* returned, and every fragment of the text searched (the stored page
\* texts, each behind its page marker) that contains at least one keyword
\* of the question is among them unless five or more other such fragments
\* rank before it: they match more keywords, or as many and come earlier in
\* the text.
C18_MatchReturnedUnlessOutranked ==
    Asked =>
        LET matching == Matching
            outranked(i) ==
                Cardinality({j \in 1..Len(matching) :
                    \/ matching[j].matches > matching[i].matches
                    \/ matching[j].matches = matching[i].matches /\ j < i}) >= 5
        IN  /\ CountExcerpts(answer) <= 5
            /\ \A i \in 1..Len(matching) :
                 (matching[i].sentence # "" /\ ~outranked(i)) =>
                    Contains(answer, "* " \o matching[i].sentence \o "\n\n")

\* C18 witness: six sentences of six.pdf contain the keyword "cats"; the
\* first five are returned and the sixth, on the second page, is not.
C18_Witness ==
    /\ Asked
    /\ call.question = "cats" /\ call.file_path = "six.pdf"
    /\ "six.pdf" \in DictKeys(document_store)
    /\ Contains(answer, "* cats hop\n\n")
    /\ ~Contains(answer, "cats and dogs play")
    /\ CountExcerpts(answer) = 5

\* C19 (as claimed): right after a question with documents loaded, when no
\* stored sentence of the documents searched contains a keyword of the
\* question (as when the question has no word longer than three
\* characters), the answer is the "Could not find relevant information"
\* message and no list of excerpts.
C19_NoMatchNoExcerpts ==
    (/\ Asked
     /\ \A sentence \in StoredSentences(call.file_path) :
            Matches(QuestionWords(call.question), sentence) = 0) =>
        answer = CouldNotFind(call.question)
(***************************************************************************)
(* Properties of answering a question.                                     *)
(***************************************************************************)
\* A call of get_user_response with a question id that is a key.
AnswerStep == get_user_response /\ call'.question_id \in DictKeys(user_responses)

\* C26 (as claimed): get_user_response with an existing question id sets
\* answered and stores the response in that record and leaves every other
\* record as it was; user_preferences[preference_type] becomes the response
\* if the record is a preference question (question_type "preference") and
\* user_preferences stays as it was otherwise; and no step makes an
\* answered record pending again.
C26_AnswerMarksAndStores ==
    /\ [][AnswerStep =>
            LET id == call'.question_id
                old == DictGet(user_responses, id)
                new == DictGet(user_responses', id)
            IN  /\ new.answered = TRUE
                /\ new.response = call'.response
                /\ Len(user_responses') = Len(user_responses)
                /\ \A i \in 1..Len(user_responses) :
                     /\ user_responses'[i].key = user_responses[i].key
                     /\ user_responses[i].key # id =>
                          user_responses'[i] = user_responses[i]
                /\ IF old.question_type = "preference"
                   THEN /\ "preference_type" \in DOMAIN old
                        /\ user_preferences' =
                             DictSet(user_preferences, old.preference_type,
                                     call'.response)
                   ELSE user_preferences' = user_preferences]_vars
    /\ [][\A i \in 1..Len(user_responses) :
            user_responses[i].value.answered => user_responses'[i].value.answered]_vars

(***************************************************************************)
(* Properties of the error handling of the servers.                        *)
(***************************************************************************)
\* The texts among the arguments of the calls that are no date and no time.
MalformedDates == {"2025-13-01"}
MalformedTimes == {"9am"}

\* s begins with prefix.
StartsWith(s, prefix) == Len(s) >= Len(prefix) /\ SubSeq(s, 1, Len(prefix)) = prefix

\* C25: a call of schedule_meeting with a malformed date or time returns an
\* error string (the "Invalid date/time format" message when the calendar is
\* authenticated) and leaves the calendar as it was; a call of order_pizza
\* with a pizza type that is not on the menu or a restaurant that is not in
\* the table returns the "not found" error and leaves orders_db as it was; a
\* call of get_user_response with a question id that is no key returns the
\* "not found" error and leaves user_responses and user_preferences as they
\* were.
C25_InputErrorsChangeNothing ==
    /\ [][(/\ schedule_meeting
           /\ (call'.date \in MalformedDates \/ call'.time \in MalformedTimes)) =>
            /\ calendar' = calendar
            /\ StartsWith(answer', "Error: ")
            /\ call'.service # "unauthenticated" =>
                 StartsWith(answer', "Error: Invalid date/time format.")]_vars
    /\ [][(/\ order_pizza
           /\ (\/ call'.pizza_type \notin DOMAIN PIZZA_MENU
               \/ call'.restaurant \notin DOMAIN RESTAURANTS)) =>
            /\ orders_db' = orders_db
            /\ StartsWith(answer', "Error: ")
            /\ Contains(answer', "not found.")]_vars
    /\ [][(/\ get_user_response
           /\ call'.question_id \notin DictKeys(user_responses)) =>
            /\ user_responses' = user_responses
            /\ user_preferences' = user_preferences
            /\ answer' = "Error: Question ID " \o call'.question_id \o " not found."]_vars

\* C25 witness: with a meeting on the calendar, a meeting at the time "9am"
\* was asked for and refused.
C25_Witness ==
    /\ Len(calendar) = 1
    /\ call.op = "schedule_meeting" /\ call.service = "ok"
    /\ call.time = "9am"
    /\ StartsWith(answer, "Error: Invalid date/time format.")

(***************************************************************************)
(* Properties of the tools that need credentials.                          *)
(***************************************************************************)
\* A step of send_email, and a step of one of the functions of the calendar:
\* every function records itself in call.
EmailStep == call'.op = "send_email"
CalendarStep ==
    call'.op \in {"schedule_meeting", "list_meetings", "cancel_meeting",
                  "check_availability", "update_meeting"}

\* What a call without its credential does: it returns an error string,
\* sends no request to the provider and leaves every store as it was.
Refused ==
    /\ StartsWith(answer', "Error")
    /\ call'.requests = <<>>
    /\ UNCHANGED servers \/ servers' = [servers EXCEPT ![7] = call', ![8] = answer']

\* C21 as stated: send_email without RESEND_API_KEY, and every function of
\* the calendar without a valid token in token.json, returns an error string,
\* sends no request to the provider and changes no store.
C21_NoCredentialNoRequest ==
    /\ [][(EmailStep /\ call'.api_key \in {None, ""}) => Refused]_vars
    /\ [][(CalendarStep /\ call'.token # "valid") => Refused]_vars

\* C21 amended: the same, for the functions of the calendar when token.json
\* is absent or holds no valid token and no refresh token to get one.
C21_NoCredentialNoRequestUnlessRefreshed ==
    /\ [][(EmailStep /\ call'.api_key \in {None, ""}) =>
            Refused /\ answer' \in {"Error: Missing required fields (to, subject, body)",
                                    "Error: RESEND_API_KEY not found in environment variables"}]_vars
    /\ [][(CalendarStep /\ call'.token \in {"missing", "expired"}) =>
            Refused /\ answer' = NotAuthenticated]_vars

\* C21 witness: with a meeting on the calendar and an order placed,
\* update_meeting was refused for want of a token.
C21_Witness ==
    /\ Len(calendar) = 1 /\ Len(orders_db) = 1
    /\ call.op = "update_meeting" /\ call.token = "missing"
    /\ call.event_id = EventId(1)
    /\ answer = NotAuthenticated

\* C21 witness: with the same stores, send_email was refused for want of
\* the key.
C21_WitnessEmail ==
    /\ Len(calendar) = 1 /\ Len(orders_db) = 1
    /\ call.op = "send_email" /\ call.api_key = None /\ call.to # <<>>
    /\ answer = "Error: RESEND_API_KEY not found in environment variables"

(***************************************************************************)
(* Properties of the session loop.                                         *)
(***************************************************************************)
\* C22: a step of the loop that reads a line whose stripped text is empty
\* changes nothing; one that reads quit, exit or bye in any letter case ends
\* the loop without a turn and without a model call; one that reads any
\* other line appends exactly one turn whose user text is the stripped line
\* and calls process_with_claude with it.  The loop ends by such a quit line
\* or by a keyboard interrupt only.
C22_QuitLinesEndTheLoop ==
    /\ [][\A raw \in RawLines(Len(conversation_history) + 1) :
            ReadLineOf(raw) =>
              LET line == Stripped(raw) IN
              IF line = "" THEN UNCHANGED vars
              ELSE IF LowerCased(line) \in {"quit", "exit", "bye"}
              THEN /\ loop' = "returned"
                   /\ pc' = "idle"
                   /\ conversation_history' = conversation_history
                   /\ events' = events
              ELSE /\ loop' = "awaiting"
                   /\ pc' = "entry"
                   /\ conversation_history' =
                        Append(conversation_history, [user |-> line, assistant |-> ""])
                   /\ user_message' = line]_vars
    /\ [][(loop = "input" /\ loop' = "returned") =>
            \/ KeyboardInterrupt
            \/ \E raw \in RawLines(Len(conversation_history) + 1) :
                 /\ LowerCased(Stripped(raw)) \in {"quit", "exit", "bye"}
                 /\ ReadLineOf(raw)]_vars
    /\ [][(loop = "input" /\ conversation_history' # conversation_history) =>
            /\ Len(conversation_history') = Len(conversation_history) + 1
            /\ loop' = "awaiting"]_vars

\* C22 witness: after eleven turns the line "quit now" was read and made the
\* twelfth turn.
C22_Witness ==
    /\ Len(conversation_history) = TurnBound
    /\ conversation_history[TurnBound].user = "quit now"
    /\ loop = "awaiting"

(***************************************************************************)
(* Properties of the two model calls of a turn.                            *)
(***************************************************************************)
\* The model calls of the current call of process_with_claude, in order.
Calls == SelectSeq(events, LAMBDA e : e.kind = "model_call")

\* C23: the messages of the second model call are the messages of the first
\* followed by an assistant message with the whole content of the first
\* response and a user message with the list of the tool results, and the
\* system prompt and the tool specs of the two calls are the same.
C23_SecondCallExtendsFirst ==
    Len(Calls) = 2 =>
        /\ Calls[2].messages =
             Calls[1].messages
             \o <<[role |-> "assistant", content |-> [blocks |-> response.content]],
                  [role |-> "user", content |-> [tool_results |-> tool_results]]>>
        /\ Calls[2].system = Calls[1].system
        /\ Calls[2].tools = Calls[1].tools

\* C23 witness: the second call was made for a response with a text block
\* and a tool_use block whose tool was executed.
C23_Witness ==
    /\ Len(Calls) = 2
    /\ Len(response.content) = 2
    /\ response.content[1].type = "text"
    /\ response.content[2].type = "tool_use"
    /\ Len(tool_results) = 1

(***************************************************************************)
(* Properties of the loop over the blocks of a response.                   *)
(***************************************************************************)
\* The executions of tools by the current call of process_with_claude, in
\* order.
Execs == SelectSeq(events, LAMBDA e : e.kind = "tool_exec")

\* The tool_use blocks among the first n blocks of the first response.
UsesBefore(n) == ToolUses(SubSeq(response.content, 1, n))

\* C24: while the blocks of a response are worked through, the results
\* recorded are those of the tool_use blocks before the current block, in
\* block order, and the executions made are in ascending block order, all of
\* blocks before the current one; one iteration handles one block, and when
\* the executor of a block runs, the result of every earlier tool_use block
\* is recorded already and its own result is recorded before the next block
\* is looked at.
C24_BlocksInOrder ==
    /\ [](pc = "tools" =>
            /\ Len(tool_results) = Len(UsesBefore(idx - 1))
            /\ \A j \in 1..Len(tool_results) :
                 tool_results[j].tool_use_id = UsesBefore(idx - 1)[j].id
            /\ \A j \in 1..Len(Execs) :
                 /\ Execs[j].block < idx
                 /\ Execs[j].name = response.content[Execs[j].block].name
                 /\ j > 1 => Execs[j - 1].block < Execs[j].block)
    /\ [][(pc = "tools" /\ pc' = "tools") =>
            /\ idx' = idx + 1
            /\ Len(Execs') > Len(Execs) =>
                 /\ Execs' = Append(Execs, [kind |-> "tool_exec", block |-> idx,
                                            name |-> response.content[idx].name])
                 /\ Len(tool_results) = Len(UsesBefore(idx - 1))
                 /\ Len(tool_results') = Len(tool_results) + 1
                 /\ tool_results'[Len(tool_results')].tool_use_id = response.content[idx].id
                 /\ SubSeq(tool_results', 1, Len(tool_results)) = tool_results]_vars

\* C24 witness: two tools of one response were executed, the second block
\* with the smaller id.
C24_Witness ==
    /\ pc = "tools"
    /\ Len(Execs) = 2
    /\ response.content[1].id = ToolId(2)
    /\ tool_results[1].tool_use_id = ToolId(2)
    /\ tool_results[2].tool_use_id = ToolId(1)

(***************************************************************************)
(* Properties of the message list of a turn submitted through run().       *)
(***************************************************************************)
\* C27: in the first model call of a turn that run() submitted, the roles of
\* the messages alternate, beginning with user, and the text of the turn is
\* the content of the last message and of no other.
C27_RolesAlternate ==
    (loop = "awaiting" /\ ModelCalls >= 1) =>
        LET sent == FirstCallMessages IN
        /\ \A i \in 1..Len(sent) :
             sent[i].role = IF i % 2 = 1 THEN "user" ELSE "assistant"
        /\ sent[Len(sent)].content.text = user_message
        /\ \A i \in 1..(Len(sent) - 1) : sent[i].content.text # user_message

(***************************************************************************)
(* Properties of the availability tool.                                    *)
(***************************************************************************)
\* C28: check_availability_tool(date, time, duration) calls
\* check_availability with time as the start time, duration as
\* duration_minutes and no end time, so that an authenticated call with a
\* well-formed date and time is answered for the window of duration minutes
\* from date and time.
C28_ToolChecksTheWindow ==
    [][call'.op = "check_availability_tool" =>
         /\ call'.start_time = call'.time
         /\ call'.end_time = None
         /\ call'.duration_minutes = call'.duration
         /\ call'.service = "ok" => ~StartsWith(answer', "Error")]_vars

(***************************************************************************)
(* Properties of the page ranges of the PDF readers.                       *)
(***************************************************************************)
\* A step of read_pdf_text or read_pdf_with_ocr, and one that found the file.
ReadStep == call'.op \in {"read_pdf_text", "read_pdf_with_ocr"}
ReadDone == ReadStep /\ "start" \in DOMAIN call'

\* The numbers of the pages stored for a path.
PageNumbers(store, path) ==
    [i \in 1..Len(DictGet(store, path).pages) |-> DictGet(store, path).pages[i].page_number]

\* C29: for every file with at least one page and every page_start and
\* page_end (absent, zero, negative, beyond the last page, page_end before
\* page_start) both readers compute 0 <= start < end <= total_pages, and
\* read the pages start + 1 to end.
C29_RangeWithinDocument ==
    [][ReadDone =>
         /\ call'.total_pages >= 1
         /\ 0 <= call'.start
         /\ call'.start < call'.end
         /\ call'.end <= call'.total_pages
         /\ Len(DictGet(document_store', call'.file_path).pages) = call'.end - call'.start]_vars

\* C29 witness: pages 3 to 1 of a file of two pages were asked for, and page
\* 2 was read.
C29_Witness ==
    /\ call.op = "read_pdf_with_ocr" /\ call.file_path = "six.pdf"
    /\ call.page_start = <<3>> /\ call.page_end = <<1>>
    /\ call.start = 1 /\ call.end = 2

\* C30: document_store holds one entry per path at most.  A read of a file
\* that exists sets the entry of its path to the pages start + 1 to end of
\* the range (the pages a to b asked for when 1 <= a <= b <= total_pages),
\* with the text of the file, and leaves the entries of the other paths and
\* their order as they were; a read of a missing file leaves the store as it
\* was.  A question about a path is answered from the pages stored for it
\* last: the sentence of page 2 is found if and only if page 2 is among them.
C30_StoreHoldsLastRange ==
    /\ [](\A i, j \in 1..Len(document_store) :
            document_store[i].key = document_store[j].key => i = j)
    /\ [][(ReadStep /\ ~ReadDone) => document_store' = document_store]_vars
    /\ [][ReadDone =>
            LET path == call'.file_path
                file == DictGet(PdfFiles, path)
                a == call'.page_start
                b == call'.page_end
            IN  /\ DictKeys(document_store') = DictKeys(document_store) \cup {path}
                /\ \A i \in 1..Len(document_store) :
                     /\ document_store'[i].key = document_store[i].key
                     /\ document_store[i].key # path =>
                          document_store'[i] = document_store[i]
                /\ PageNumbers(document_store', path) =
                     [i \in 1..(call'.end - call'.start) |-> call'.start + i]
                /\ \A i \in 1..(call'.end - call'.start) :
                     DictGet(document_store', path).pages[i].text =
                        file[call'.start + i].text
                /\ (/\ a # <<>> /\ b # <<>>
                    /\ 1 <= a[1] /\ a[1] <= b[1] /\ b[1] <= Len(file)) =>
                     PageNumbers(document_store', path) =
                        [i \in 1..(b[1] - a[1] + 1) |-> a[1] + i - 1]]_vars
    /\ [][(/\ call'.op = "ask_question_about_pdf"
           /\ call'.file_path = "six.pdf"
           /\ "six.pdf" \in DictKeys(document_store)) =>
            (Contains(answer', "cats and dogs play")
               <=> \E i \in 1..Len(DictGet(document_store, "six.pdf").pages) :
                     DictGet(document_store, "six.pdf").pages[i].page_number = 2)]_vars

\* C30 witness: with a.pdf stored before it, six.pdf was read whole and then
\* its page 1 alone, and the question about the dogs of page 2 found nothing.
C30_Witness ==
    /\ Len(document_store) = 2
    /\ document_store[1].key = "a.pdf"
    /\ PageNumbers(document_store, "six.pdf") = <<1>>
    /\ call.op = "ask_question_about_pdf" /\ call.file_path = "six.pdf"
    /\ ~Contains(answer, "cats and dogs play")

====
